---- MODULE Spec2Model ----
(***************************************************************************)
(* A model of src/github.ts (class GitHub of release-please): the commit   *)
(* history reader, the release pull-request matcher, the tag resolver, the *)
(* release pull-request synchronizer, removeLabels and the issue finder,   *)
(* as state machines whose steps are the awaits of the source.             *)
(*                                                                         *)
(* Strings the code takes apart (branch names, refs, labels of the form    *)
(* owner:branch, versions, tag names) are sequences of one-character       *)
(* strings.  Strings the code only compares or passes on (bodies, titles,  *)
(* label names) are TLA+ strings.  Commit shas and pull-request numbers    *)
(* are positive integers.                                                  *)
(***************************************************************************)
EXTENDS Integers, Sequences, FiniteSets, TLC

(***************************************************************************)
(* Bounds of the model.                                                    *)
(***************************************************************************)
\* longest commit history the host serves
MaxCommits == 4
\* largest page size a caller asks for
MaxPerPage == 2
\* most gateway (502) answers the host gives during one call
MaxGateway == 4

(***************************************************************************)
(* Program constants.                                                      *)
(***************************************************************************)
\* github.ts:308, github.ts:388  `err.status === 502 && retries < 3`
RetryLimit == 3

(***************************************************************************)
(* Status codes, the discriminator of a failure (err.status), as strings.  *)
(***************************************************************************)
\* github.ts:308, github.ts:388
GatewayStatus == "502"
\* github.ts:794
NotFoundStatus == "404"
\* github.ts:944
ForbiddenStatus == "403"
\* a failure class that is none of 403, 404, 502
OtherStatus == "500"
\* an error that carries no status (err.status is undefined)
NoStatus == "undefined"
\* a request that has not been answered yet, and one that succeeded
Pending == "pending"
OK == "200"

(***************************************************************************)
(* Character sequences.                                                    *)
(***************************************************************************)
Min(a, b) == IF a < b THEN a ELSE b

\* s.startsWith(p)
StartsWith(s, p) == Len(p) <= Len(s) /\ SubSeq(s, 1, Len(p)) = p

\* s.includes(t)
Includes(s, t) ==
  \E i \in 0..(Len(s) - Len(t)) : SubSeq(s, i + 1, i + Len(t)) = t

\* character classes of the regular expressions
Digit == {"0", "1", "2", "3", "4", "5", "6", "7", "8", "9"}
Letter ==
  {"a", "b", "c", "d", "e", "f", "g", "h", "i", "j", "k", "l", "m", "n", "o",
   "p", "q", "r", "s", "t", "u", "v", "w", "x", "y", "z"}
\* \w
WordChar == Letter \cup Digit \cup {"_"}

AllIn(s, chars) == \A i \in 1..Len(s) : s[i] \in chars

\* s.indexOf(c), counted from 1; 0 when c does not occur
IndexOf(s, c) ==
  IF \E i \in 1..Len(s) : s[i] = c
  THEN CHOOSE i \in 1..Len(s) : s[i] = c /\ \A j \in 1..(i - 1) : s[j] # c
  ELSE 0

From(s, i) == SubSeq(s, i, Len(s))

\* s.split(c)
RECURSIVE Split(_, _)
Split(s, c) ==
  IF IndexOf(s, c) = 0 THEN <<s>>
  ELSE <<SubSeq(s, 1, IndexOf(s, c) - 1)>> \o Split(From(s, IndexOf(s, c) + 1), c)

\* parts.join(c)
RECURSIVE Join(_, _)
Join(parts, c) ==
  IF Len(parts) = 0 THEN <<>>
  ELSE IF Len(parts) = 1 THEN parts[1]
  ELSE parts[1] \o <<c>> \o Join(Tail(parts), c)

\* the number a string of digits denotes
RECURSIVE ToNat(_)
ToNat(s) ==
  IF s = <<>> THEN 0
  ELSE 10 * ToNat(SubSeq(s, 1, Len(s) - 1))
       + (CHOOSE d \in 0..9 : <<"0", "1", "2", "3", "4", "5", "6", "7", "8", "9">>[d + 1] = s[Len(s)])

\* repository coordinates: this.owner and the host's default branch
Owner == <<"o", "w", "n", "e", "r">>
Main == <<"m", "a", "i", "n">>

(***************************************************************************)
(* The semver package, as github.ts uses it: semver.valid (strict) at      *)
(* github.ts:531 and github.ts:595, semver.rcompare at github.ts:505.      *)
(***************************************************************************)
\* a numeric identifier: 0|[1-9]\d*
IsNumericId(s) == s # <<>> /\ AllIn(s, Digit) /\ (Len(s) = 1 \/ s[1] # "0")

\* a non-numeric identifier: \d*[a-zA-Z-][a-zA-Z0-9-]*
IsAlphanumId(s) ==
  /\ s # <<>>
  /\ AllIn(s, Letter \cup Digit \cup {"-"})
  /\ ~AllIn(s, Digit)

\* a build identifier: [0-9A-Za-z-]+
IsBuildId(s) == s # <<>> /\ AllIn(s, Letter \cup Digit \cup {"-"})

\* The parts of a version string: v?MAIN(-PRERELEASE)?(+BUILD)?, where the
\* main part ends at the first "-" and the build part starts at the first
\* "+".
VersionParts(str) ==
  LET bare == IF str # <<>> /\ str[1] = "v" THEN Tail(str) ELSE str
      plus == IndexOf(bare, "+")
      core == IF plus = 0 THEN bare ELSE SubSeq(bare, 1, plus - 1)
      dash == IndexOf(core, "-")
  IN  [main |-> Split(IF dash = 0 THEN core ELSE SubSeq(core, 1, dash - 1), "."),
       hasPre |-> dash # 0,
       pre |-> IF dash = 0 THEN <<>> ELSE Split(From(core, dash + 1), "."),
       hasBuild |-> plus # 0,
       build |-> IF plus = 0 THEN <<>> ELSE Split(From(bare, plus + 1), ".")]

\* new SemVer(str) does not throw
IsSemver(str) ==
  LET p == VersionParts(str)
  IN  /\ Len(p.main) = 3
      /\ \A i \in 1..3 : IsNumericId(p.main[i])
      /\ \A i \in 1..Len(p.pre) : IsNumericId(p.pre[i]) \/ IsAlphanumId(p.pre[i])
      /\ \A i \in 1..Len(p.build) : IsBuildId(p.build[i])

\* the string is returned as it was given
SemverValidAsGiven(str) == IF ~IsSemver(str) THEN <<>> ELSE str

\* semver.valid(str): the normalized version (no leading v, no build
\* metadata), or <<>> for null
SemverValid(str) ==
  IF ~IsSemver(str) THEN <<>>
  ELSE LET p == VersionParts(str)
       IN  Join(p.main, ".")
           \o (IF p.hasPre THEN <<"-">> \o Join(p.pre, ".") ELSE <<>>)

\* the order of the characters of identifiers in ASCII
AsciiOrder ==
  <<"-", "0", "1", "2", "3", "4", "5", "6", "7", "8", "9", "_",
    "a", "b", "c", "d", "e", "f", "g", "h", "i", "j", "k", "l", "m", "n", "o",
    "p", "q", "r", "s", "t", "u", "v", "w", "x", "y", "z">>
Ascii(c) == CHOOSE i \in 1..Len(AsciiOrder) : AsciiOrder[i] = c

\* a < b for strings, as JavaScript compares them
RECURSIVE StringLess(_, _)
StringLess(a, b) ==
  IF b = <<>> THEN FALSE
  ELSE IF a = <<>> THEN TRUE
  ELSE IF a[1] # b[1] THEN Ascii(a[1]) < Ascii(b[1])
  ELSE StringLess(Tail(a), Tail(b))

Sign(lt, gt) == IF lt THEN -1 ELSE IF gt THEN 1 ELSE 0

\* compareIdentifiers(a, b): numbers before non-numbers, numbers by value
CompareIdentifiers(a, b) ==
  LET anum == AllIn(a, Digit)
      bnum == AllIn(b, Digit)
  IN  IF anum /\ bnum THEN Sign(ToNat(a) < ToNat(b), ToNat(a) > ToNat(b))
      ELSE IF anum THEN -1
      ELSE IF bnum THEN 1
      ELSE Sign(StringLess(a, b), StringLess(b, a))

\* SemVer.comparePre: a version without a pre-release is the greater
RECURSIVE ComparePre(_, _)
ComparePre(a, b) ==
  IF a = <<>> /\ b = <<>> THEN 0
  ELSE IF a = <<>> THEN -1
  ELSE IF b = <<>> THEN 1
  ELSE IF CompareIdentifiers(a[1], b[1]) # 0 THEN CompareIdentifiers(a[1], b[1])
  ELSE ComparePre(Tail(a), Tail(b))

RECURSIVE CompareMain(_, _)
CompareMain(a, b) ==
  IF a = <<>> THEN 0
  ELSE IF CompareIdentifiers(a[1], b[1]) # 0 THEN CompareIdentifiers(a[1], b[1])
  ELSE CompareMain(Tail(a), Tail(b))

\* semver.compare(v1, v2) of two valid versions
SemverCompare(v1, v2) ==
  LET a == VersionParts(v1)
      b == VersionParts(v2)
  IN  IF CompareMain(a.main, b.main) # 0 THEN CompareMain(a.main, b.main)
      ELSE IF a.hasPre /\ ~b.hasPre THEN -1
      ELSE IF ~a.hasPre /\ b.hasPre THEN 1
      ELSE ComparePre(a.pre, b.pre)

VARIABLES
  probotMode,     \* let probotMode of the module (github.ts:126)
  instances,      \* the GitHub instances constructed, <<>> for one that is not
  sent,           \* what graphqlRequest and decoratePaginateOpts have made
  defaultBranch,  \* this.defaultBranch; <<>> while unresolved
  lookups,        \* how many repos.get the instance has issued
  pc,             \* position of the running call
  op,             \* the public method that is running
  args,           \* its arguments
  requests,       \* the requests the call has issued, each with its outcome
  result,         \* what the call returned, or the error it threw
  history,        \* host: the commit history of the default branch
  closedPulls,    \* host: the closed pull requests, latest merge first
  openPulls,      \* host: the open pull requests, in listing order
  repoTags,       \* host: the tags of the repository, in listing order
  files,          \* host: the paths of the files on the default branch
  issues,         \* host: the issues a listing by label returns, in its order
  commits,        \* commitsSinceSha: const commits
  cursor,         \* commitsSinceSha: let cursor (0 is undefined)
  retries,        \* commitsWithFiles / commitsWithLabels: parameter retries
  tags,           \* allTags: const tags, the entries in key order
  tagPage,        \* allTags: the page the paginate iterator is at
  pullsResponse,  \* findOpenReleasePRs: pullsResponse.data
  openReleasePR,  \* openPR: let openReleasePR, <<>> while undefined
  changes,        \* getChangeSet: const changes, the entries in key order
  update,         \* getChangeSet: the index of `update` in options.updates
  prNumber,       \* openPR: const prNumber
  repeated        \* the call repeats the openPR call that has just succeeded

moduleVars == <<probotMode, instances, sent>>
instVars == <<defaultBranch, lookups>>
callVars == <<pc, op, args, requests, result>>
hostVars == <<history, closedPulls, openPulls, repoTags, files, issues>>
commitVars == <<commits, cursor, retries>>
tagVars == <<tags, tagPage>>
syncVars == <<pullsResponse, openReleasePR, changes, update, prNumber, repeated>>
localVars == <<commitVars, tagVars, syncVars>>
vars == <<moduleVars, instVars, callVars, hostVars, localVars>>

(***************************************************************************)
(* The module and its instances: the constructor, graphqlRequest and       *)
(* decoratePaginateOpts.  probotMode belongs to the module; octokit,       *)
(* request and graphql belong to the instance.                             *)
(***************************************************************************)
MaxInstances == 2
MaxSent == 2

Instances == 1..MaxInstances

\* no instance has been constructed
NotConstructed == [i \in Instances |-> <<>>]

\* github.ts:147-171: the APIs of the instance, and probotMode after the
\* constructor; octokitAPIs is <<>> when undefined
APIsOf(octokitAPIs) == IF octokitAPIs = <<>> THEN "own" ELSE "injected"
ModeAfter(mode, octokitAPIs) == IF octokitAPIs = <<>> THEN mode ELSE TRUE

\* new GitHub(options)
Construct(i, octokitAPIs) ==
  /\ instances[i] = <<>>
  /\ instances' = [instances EXCEPT ![i] = <<[apis |-> APIsOf(octokitAPIs)]>>]
  /\ probotMode' = ModeAfter(probotMode, octokitAPIs)
  /\ UNCHANGED <<sent, instVars, callVars, hostVars, localVars>>

\* github.ts:177-188, 193-201: url and headers are added unless probotMode
Decorates(mode) == ~mode

\* github.ts:174-190: graphqlRequest of instance i
GraphqlRequest(i) ==
  /\ instances[i] # <<>>
  /\ Len(sent) < MaxSent
  /\ sent' = Append(sent, [instance |-> i, by |-> "graphqlRequest",
                           decorated |-> Decorates(probotMode)])
  /\ UNCHANGED <<probotMode, instances, instVars, callVars, hostVars, localVars>>

\* github.ts:192-202: decoratePaginateOpts of instance i
DecoratePaginateOpts(i) ==
  /\ instances[i] # <<>>
  /\ Len(sent) < MaxSent
  /\ sent' = Append(sent, [instance |-> i, by |-> "decoratePaginateOpts",
                           decorated |-> Decorates(probotMode)])
  /\ UNCHANGED <<probotMode, instances, instVars, callVars, hostVars, localVars>>

(***************************************************************************)
(* Requests.  A request is logged when it is issued, still pending; the    *)
(* answer overwrites the status (200, or the failure's status).            *)
(***************************************************************************)
Request(kind, arg) == [kind |-> kind, arg |-> arg, status |-> Pending]

Outstanding == {i \in 1..Len(requests) : requests[i].status = Pending}

\* the request being awaited
Awaited == requests[Len(requests)]

\* the call goes on while the request is still pending
AnswerNotAwaited(status) == requests

Answer(status) == [requests EXCEPT ![Len(requests)].status = status]

Idle == pc = "idle"
Finished == pc \in {"done", "failed"}

Returned(value) == [ok |-> TRUE, value |-> value]
Thrown(status) == [ok |-> FALSE, status |-> status]

\* The caller has the value or the error of the call; the instance is free
\* for the next call.  What is kept of the call is whether it was an openPR
\* that succeeded, and then its arguments.
Return ==
  /\ Finished
  /\ pc' = "idle"
  /\ IF op = "openPR" /\ pc = "done"
     THEN UNCHANGED <<op, args>>
     ELSE op' = "none" /\ args' = <<>>
  /\ requests' = <<>>
  /\ result' = Returned(<<>>)
  /\ commits' = <<>>
  /\ cursor' = 0
  /\ retries' = 0
  /\ tags' = <<>>
  /\ tagPage' = 1
  /\ pullsResponse' = <<>>
  /\ openReleasePR' = <<>>
  /\ changes' = <<>>
  /\ update' = 1
  /\ prNumber' = 0
  /\ repeated' = FALSE
  /\ UNCHANGED <<moduleVars, instVars, hostVars>>

(***************************************************************************)
(* getDefaultBranch (github.ts:825-838): memoized; otherwise one           *)
(* repos.get.  A position that awaits getDefaultBranch is in NeedsBranch;  *)
(* the step after it is guarded by defaultBranch # <<>>.                   *)
(***************************************************************************)
NeedsBranch == {"commitsWith", "findMerged", "findOpen"}

\* most lookups of the default branch that the host lets fail
MaxLookupFailures == 1

\* the lookup is made whether or not the branch is known
IsUnresolvedOrNot(branch) == TRUE

\* github.ts:826: if (this.defaultBranch) return this.defaultBranch
IsUnresolved(branch) == branch = <<>>

GetDefaultBranch ==
  /\ pc \in NeedsBranch
  /\ IsUnresolved(defaultBranch)
  /\ Outstanding = {}
  /\ requests' = Append(requests, Request("repos.get", [owner |-> Owner]))
  /\ lookups' = lookups + 1
  /\ UNCHANGED <<moduleVars, defaultBranch, pc, op, args, result, hostVars, localVars>>

GetDefaultBranchOK ==
  /\ pc \in NeedsBranch
  /\ Outstanding # {}
  /\ Awaited.kind = "repos.get"
  /\ defaultBranch' = Main
  /\ requests' = Answer(OK)
  /\ UNCHANGED <<moduleVars, lookups, pc, op, args, result, hostVars, localVars>>

GetDefaultBranchFail ==
  /\ pc \in NeedsBranch
  /\ Outstanding # {}
  /\ Awaited.kind = "repos.get"
  /\ lookups <= MaxLookupFailures
  /\ \E status \in {OtherStatus, NotFoundStatus} :
       /\ requests' = Answer(status)
       /\ result' = Thrown(status)
  /\ pc' = "failed"
  /\ UNCHANGED <<moduleVars, instVars, op, args, hostVars, localVars>>

(***************************************************************************)
(* CommitHistoryReader: commitsSinceSha, commitsWithFiles,                 *)
(* commitsWithLabels (github.ts:204-403).                                  *)
(***************************************************************************)
\* The host's answer to history(first: perPage, after: cursor): a cursor is
\* the number of commits before the page.
PageOf(after, perPage) ==
  LET last == Min(after + perPage, Len(history))
  IN  [commits |-> SubSeq(history, after + 1, last),
       endCursor |-> IF last > after THEN last ELSE 0,
       hasNextPage |-> last < Len(history)]

\* the loop with the comparison and the push swapped: the boundary commit
\* itself is kept
RECURSIVE ScanPageKeepsBoundary(_, _, _, _)
ScanPageKeepsBoundary(acc, page, i, sha) ==
  IF i > Len(page) THEN [commits |-> acc, hit |-> FALSE]
  ELSE IF page[i] = sha THEN [commits |-> Append(acc, page[i]), hit |-> TRUE]
  ELSE ScanPageKeepsBoundary(Append(acc, page[i]), page, i + 1, sha)

\* github.ts:220-227: the loop over one page; hit when commit.sha === sha
RECURSIVE ScanPage(_, _, _, _)
ScanPage(acc, page, i, sha) ==
  IF i > Len(page) THEN [commits |-> acc, hit |-> FALSE]
  ELSE IF page[i] = sha THEN [commits |-> acc, hit |-> TRUE]
  ELSE ScanPage(Append(acc, page[i]), page, i + 1, sha)

\* github.ts:211
Method(labels) == IF labels THEN "commitsWithLabels" ELSE "commitsWithFiles"

\* github.ts:317, github.ts:397: the value of the argument expression
\* `retries++`, which the recursive call receives as its retries
RetriesArgument(r) == r

\* the retry test without the status comparison
ShouldRetryAnyStatus(status, r) == r < RetryLimit

\* github.ts:308, github.ts:388
ShouldRetry(status, r) == status = GatewayStatus /\ r < RetryLimit

\* commitsSinceSha(sha, perPage, labels, path), up to the first page call
CommitsSinceSha ==
  /\ Idle
  /\ \E sha \in 0..(MaxCommits + 1), perPage \in 1..MaxPerPage,
        labels \in BOOLEAN, path \in {"null", "src"} :
       args' = [sha |-> sha, perPage |-> perPage, labels |-> labels,
                path |-> path]
  /\ op' = "commitsSinceSha"
  /\ pc' = "commitsWith"
  /\ requests' = <<>>
  /\ result' = Returned(<<>>)
  /\ commits' = <<>>
  /\ cursor' = 0
  /\ retries' = 0
  /\ UNCHANGED <<moduleVars, instVars, hostVars, tagVars, syncVars>>

\* commitsWithFiles / commitsWithLabels: the graphql request
CommitsQuery ==
  /\ pc = "commitsWith"
  /\ defaultBranch # <<>>
  /\ Outstanding = {}
  /\ requests' = Append(requests,
       Request("graphql", [query |-> Method(args.labels), cursor |-> cursor,
                           perPage |-> args.perPage, path |-> args.path,
                           baseRef |-> <<"refs/heads/">> \o defaultBranch]))
  /\ pc' = "awaitCommits"
  /\ UNCHANGED <<moduleVars, instVars, op, args, result, hostVars, localVars>>

\* the traversal goes on after the page that holds the boundary commit
LastPageIgnoresBoundary(hit, page) ==
  page.hasNextPage = FALSE \/ page.endCursor = 0

\* github.ts:222-231: return on commit.sha === sha, and on
\* hasNextPage === false || !endCursor
LastPage(hit, page) ==
  hit \/ page.hasNextPage = FALSE \/ page.endCursor = 0

\* the page arrives: github.ts:220-233
CommitsPage ==
  /\ pc = "awaitCommits"
  /\ LET page == PageOf(Awaited.arg.cursor, Awaited.arg.perPage)
         scan == ScanPage(commits, page.commits, 1, args.sha)
     IN  /\ commits' = scan.commits
         /\ IF LastPage(scan.hit, page)
            THEN /\ pc' = "done"
                 /\ result' = Returned(scan.commits)
                 /\ UNCHANGED <<cursor, retries>>
            ELSE /\ pc' = "commitsWith"
                 /\ cursor' = page.endCursor
                 /\ retries' = 0
                 /\ UNCHANGED result
  /\ requests' = Answer(OK)
  /\ UNCHANGED <<moduleVars, instVars, op, args, hostVars, tagVars, syncVars>>

\* the retry asks for the page after the one that failed
RetryCursorSkips(c) == c + 1

\* github.ts:313, github.ts:393: the cursor argument of the recursive call
RetryCursor(c) == c

Gateways == Cardinality({i \in 1..Len(requests) : requests[i].status = GatewayStatus})

\* the query fails: github.ts:307-322, github.ts:387-402
CommitsError ==
  /\ pc = "awaitCommits"
  /\ \E status \in {GatewayStatus, OtherStatus} :
       /\ status = GatewayStatus => Gateways < MaxGateway
       /\ requests' = Answer(status)
       /\ IF ShouldRetry(status, retries)
          THEN /\ retries' = RetriesArgument(retries)
               /\ cursor' = RetryCursor(cursor)
               /\ pc' = "commitsWith"
               /\ UNCHANGED result
          ELSE /\ pc' = "failed"
               /\ result' = Thrown(status)
               /\ UNCHANGED <<retries, cursor>>
  /\ UNCHANGED <<moduleVars, instVars, op, args, hostVars, commits, tagVars, syncVars>>

\* an instance that starts with its branch unresolved is given a host with
\* at most one commit, pull request or tag
FewWhileUnresolved(n) == defaultBranch = <<>> => n <= 1

InitCommits ==
  /\ probotMode = FALSE
  /\ instances = NotConstructed
  /\ sent = <<>>
  /\ defaultBranch \in {<<>>, Main}
  /\ lookups = 0
  /\ pc = "idle"
  /\ op = "none"
  /\ args = <<>>
  /\ requests = <<>>
  /\ result = Returned(<<>>)
  /\ \E n \in 0..MaxCommits : history = [i \in 1..n |-> i]
  /\ FewWhileUnresolved(Len(history))
  /\ closedPulls = <<>>
  /\ openPulls = <<>>
  /\ repoTags = <<>>
  /\ commits = <<>>
  /\ cursor = 0
  /\ retries = 0
  /\ tags = <<>>
  /\ tagPage = 1
  /\ files = {}
  /\ issues = <<>>
  /\ pullsResponse = <<>>
  /\ openReleasePR = <<>>
  /\ changes = <<>>
  /\ update = 1
  /\ prNumber = 0
  /\ repeated = FALSE

NextCommits ==
  \/ GetDefaultBranch
  \/ GetDefaultBranchOK
  \/ GetDefaultBranchFail
  \/ CommitsSinceSha
  \/ CommitsQuery
  \/ CommitsPage
  \/ CommitsError
  \/ Return

SpecCommits == InitCommits /\ [][NextCommits]_vars

\* The steps of a call in progress: the awaits of github.ts:204-234 resume
\* once the host has answered, and the host answers every request.
Traversal ==
  \/ GetDefaultBranch
  \/ GetDefaultBranchOK
  \/ GetDefaultBranchFail
  \/ CommitsQuery
  \/ CommitsPage
  \/ CommitsError

FairSpecCommits == SpecCommits /\ WF_vars(Traversal)

(***************************************************************************)
(* Claims about the commit history reader.                                 *)
(***************************************************************************)
IsQuery(i) == requests[i].kind = "graphql"

\* the query attempts of the call for the page after cursor c
AttemptsFor(c) ==
  Cardinality({i \in 1..Len(requests) : IsQuery(i) /\ requests[i].arg.cursor = c})

\* C1: Retry ceiling.  Whatever the backend answers, a call issues at most
\* 4 query attempts for one page (1 initial + 3 retries), for both query
\* variants.
C1_RetryCeiling ==
  op = "commitsSinceSha" =>
    \A i \in 1..Len(requests) :
      IsQuery(i) => AttemptsFor(requests[i].arg.cursor) <= RetryLimit + 1

\* the commits that strictly precede the first commit whose sha is sha, or
\* all of them when no commit has that sha
CommitsBefore(sha) ==
  LET at == {i \in 1..Len(history) : history[i] = sha}
  IN  IF at = {} THEN history
      ELSE SubSeq(history, 1, (CHOOSE i \in at : \A j \in at : i <= j) - 1)

\* C6: When commitsSinceSha returns, it returns exactly the commits that
\* strictly precede the boundary sha, in the order of the history across
\* the pages, none duplicated or skipped and the boundary excluded; all
\* commits when the sha is undefined or never appears.
C6_CommitsSinceBoundary ==
  (op = "commitsSinceSha" /\ pc = "done") =>
    result = Returned(CommitsBefore(args.sha))

\* C6 witness: the boundary sits on a later page, after a page that was
\* read whole, and commits of both pages are returned.
C6_Witness ==
  /\ op = "commitsSinceSha" /\ pc = "done"
  /\ \E i \in 1..Len(history) : history[i] = args.sha
  /\ cursor > 0
  /\ Len(result.value) > cursor

\* C7: A page query that fails with a status other than 502 is the last
\* request of the call: it is not retried, no further page is requested,
\* and the call fails with that status.
C7_OtherFailureOnce ==
  op = "commitsSinceSha" =>
    \A i \in 1..Len(requests) :
      (IsQuery(i) /\ requests[i].status \notin {Pending, OK, GatewayStatus}) =>
        /\ i = Len(requests)
        /\ pc = "failed"
        /\ result = Thrown(requests[i].status)

\* C7 witness: the labels variant fails with another status on a later
\* page, after a gateway failure was retried.
C7_Witness ==
  /\ op = "commitsSinceSha" /\ pc = "failed"
  /\ args.labels
  /\ cursor > 0
  /\ Gateways > 0
  /\ Awaited.status = OtherStatus

\* the pages the call has received, as positions of the request log
Pages == {i \in 1..Len(requests) : IsQuery(i) /\ requests[i].status = OK}

\* the last page received before request j, 0 when there is none
PageBefore(j) ==
  LET before == {i \in Pages : i < j}
  IN  IF before = {} THEN 0
      ELSE CHOOSE i \in before : \A k \in before : k <= i

ReceivedPage(i) == PageOf(requests[i].arg.cursor, requests[i].arg.perPage)

HasBoundary(page) == \E k \in 1..Len(page.commits) : page.commits[k] = args.sha

\* a query that follows a page: the page had neither the boundary commit
\* nor the end of the history, and the query carries the page's cursor
FollowsPage(j) ==
  LET page == ReceivedPage(PageBefore(j))
  IN  /\ ~HasBoundary(page)
      /\ page.hasNextPage
      /\ page.endCursor # 0
      /\ requests[j].arg.cursor = page.endCursor

RECURSIVE Unfailing(_, _, _, _)
Unfailing(acc, c, sha, perPage) ==
  LET page == PageOf(c, perPage)
      scan == ScanPage(acc, page.commits, 1, sha)
  IN  IF LastPage(scan.hit, page) THEN scan.commits
      ELSE Unfailing(scan.commits, page.endCursor, sha, perPage)

\* the 502 answers to the queries for the page after cursor c
GatewaysFor(c) ==
  Cardinality({i \in 1..Len(requests) :
                 /\ IsQuery(i)
                 /\ requests[i].arg.cursor = c
                 /\ requests[i].status = GatewayStatus})

\* C26: 502 answers within the retry ceiling do not show in the result of
\* commitsSinceSha.  The query that follows a 502 answer is the query that
\* failed: same cursor, page size, path and query; and the commits the
\* call returns are those it returns when no query fails.
C26_RetriesAreTransparent ==
  (op = "commitsSinceSha" /\ \A c \in 0..MaxCommits : GatewaysFor(c) <= RetryLimit) =>
    /\ \A j \in 2..Len(requests) :
         requests[j - 1].status = GatewayStatus =>
           /\ IsQuery(j)
           /\ requests[j].arg = requests[j - 1].arg
    /\ pc = "done" =>
         result = Returned(Unfailing(<<>>, 0, args.sha, args.perPage))

\* C26 witness: a traversal of two pages or more in which the first page
\* was retried once and a later page twice has returned its commits.
C26_Witness ==
  /\ op = "commitsSinceSha" /\ pc = "done"
  /\ GatewaysFor(0) = 1
  /\ \E c \in 1..MaxCommits : GatewaysFor(c) = 2
  /\ result.value # <<>>

(***************************************************************************)
(* ReleasePRMatcher: findMergedReleasePR, hasAllLabels, findOpenReleasePRs *)
(* (github.ts:541-649).                                                    *)
(*                                                                         *)
(* A closed pull request of the host is a record                           *)
(*   [number, labels, base, head, merged, sha]                             *)
(* and an open one [number, labels, base, ref, body]: labels is the set of *)
(* label names, base and head are <<>> when the object is missing and      *)
(* <<label>> otherwise, merged says that merged_at is not empty, sha is    *)
(* merge_commit_sha, ref is head.ref.                                      *)
(***************************************************************************)
\* github.ts:543, github.ts:618: perPage = 100
DefaultPerPage == 100

\* github.ts:820-823
BaseLabel == Owner \o <<":">> \o defaultBranch

\* the page the host returns for a listing with per_page = perPage
FirstPage(pulls, perPage) == SubSeq(pulls, 1, Min(perPage, Len(pulls)))

ReleaseWord == <<":", "r", "e", "l", "e", "a", "s", "e">>

\* label.match(VERSION_FROM_BRANCH_RE) for
\*   /^.*:release-?([\w-.]*)-(v[0-9].*)$/                  (github.ts:75)
\* <<>> for null, else <<[prefix |-> match[1], version |-> match[2]]>>.
\* A way to match is (a, h, g): a characters before ":release", h = 1 when
\* the optional "-" is taken, g characters in the first group.  All three
\* quantifiers are greedy, so the backtracking search finds the way with
\* the greatest a, then the greatest h, then the greatest g.
VersionFromBranch(label) ==
  LET n == Len(label)
      starts == {a \in 0..(n - Len(ReleaseWord)) :
                   SubSeq(label, a + 1, a + Len(ReleaseWord)) = ReleaseWord}
      Way(a, h, g) ==
        LET p == a + Len(ReleaseWord) + h
        IN  /\ p + g + 3 <= n
            /\ h = 1 => label[p] = "-"
            /\ label[p + g + 1] = "-"
            /\ label[p + g + 2] = "v"
            /\ label[p + g + 3] \in Digit
            /\ AllIn(SubSeq(label, p + 1, p + g), WordChar \cup {"-", "."})
      ways == {w \in starts \X {0, 1} \X (0..n) : Way(w[1], w[2], w[3])}
      Before(v, w) ==
        \/ v[1] > w[1]
        \/ v[1] = w[1] /\ v[2] > w[2]
        \/ v[1] = w[1] /\ v[2] = w[2] /\ v[3] >= w[3]
      first == CHOOSE w \in ways : \A v \in ways : Before(w, v)
      p == first[1] + Len(ReleaseWord) + first[2]
  IN  IF ways = {} THEN <<>>
      ELSE <<[prefix |-> SubSeq(label, p + 1, p + first[3]),
              version |-> From(label, p + first[3] + 2)]>>

\* github.ts:608-614
RECURSIVE HasAllLabels(_, _)
HasAllLabels(labelsA, labelsB) ==
  IF labelsA = <<>> THEN TRUE
  ELSE (labelsA[1] \in labelsB) /\ HasAllLabels(Tail(labelsA), labelsB)

\* the prefix test with its second branch left out
WrongPrefixFirstBranchOnly(prefix, extracted) ==
  prefix # <<>> /\ extracted # prefix

\* github.ts:584-588: the pull request is of another package
WrongPrefix(prefix, extracted) ==
  IF prefix # <<>> /\ extracted # prefix THEN TRUE
  ELSE IF prefix = <<>> /\ extracted # <<>> THEN TRUE
  ELSE FALSE

\* github.ts:557-605: the loop over the page, from its i-th pull request
RECURSIVE MergedReleaseFrom(_, _, _, _, _)
MergedReleaseFrom(page, i, labels, prefix, preRelease) ==
  IF i > Len(page) THEN <<>>
  ELSE
    LET pull == page[i]
        continue == MergedReleaseFrom(page, i + 1, labels, prefix, preRelease)
        match == VersionFromBranch(pull.head[1])
        version == match[1].version
        normalizedVersion == SemverValid(version)
    IN  IF ~(Len(labels) = 0 \/ HasAllLabels(labels, pull.labels)) THEN continue
        ELSE IF pull.head = <<>> THEN continue
        ELSE IF pull.base = <<>> \/ pull.base[1] # BaseLabel THEN continue
        ELSE IF match = <<>> \/ ~pull.merged THEN continue
        ELSE IF version = <<>> THEN continue
        ELSE IF WrongPrefix(prefix, match[1].prefix) THEN continue
        ELSE IF ~preRelease /\ IndexOf(version, "-") # 0 THEN continue
        ELSE IF normalizedVersion = <<>> THEN continue
        ELSE <<[number |-> pull.number, sha |-> pull.sha,
                version |-> normalizedVersion]>>

\* the arguments a caller passes for labels, and for prefix
LabelLists ==
  {<<>>, <<"release-please">>, <<"release-please", "autorelease: pending">>}
MyPkg == <<"m", "y", "p", "k", "g">>
Prefixes == {<<>>, MyPkg}

\* branchPrefix ?? prefix, where <<>> is undefined
Coalesce(a, b) == IF a # <<>> THEN a ELSE b

\* The arguments of the running findMergedReleasePR: the caller's, or those
\* latestTag passes (github.ts:464-469).
MergedArguments ==
  IF op = "latestTag"
  THEN [labels |-> <<>>, perPage |-> DefaultPerPage,
        prefix |-> Coalesce(args.branchPrefix, args.prefix),
        preRelease |-> args.preRelease]
  ELSE args

\* findMergedReleasePR(labels, perPage, prefix, preRelease), up to
\* getBaseLabel
FindMergedReleasePR ==
  /\ Idle
  /\ \E labels \in LabelLists, perPage \in {1, DefaultPerPage},
        prefix \in Prefixes, preRelease \in BOOLEAN :
       args' = [labels |-> labels, perPage |-> perPage, prefix |-> prefix,
                preRelease |-> preRelease]
  /\ op' = "findMergedReleasePR"
  /\ pc' = "findMerged"
  /\ requests' = <<>>
  /\ result' = Returned(<<>>)
  /\ UNCHANGED <<moduleVars, instVars, hostVars, localVars>>

\* github.ts:548-556: GET pulls?state=closed&sort=merged_at&direction=desc
ListClosedPulls ==
  /\ pc = "findMerged"
  /\ defaultBranch # <<>>
  /\ Outstanding = {}
  /\ requests' = Append(requests,
       Request("GET pulls", [state |-> "closed",
                             perPage |-> MergedArguments.perPage]))
  /\ pc' = "awaitClosed"
  /\ UNCHANGED <<moduleVars, instVars, op, args, result, hostVars, localVars>>

\* the value of findMergedReleasePR once the listing has arrived
MergedReleasePR ==
  MergedReleaseFrom(FirstPage(closedPulls, Awaited.arg.perPage), 1,
                    MergedArguments.labels, MergedArguments.prefix,
                    MergedArguments.preRelease)

\* the listing arrives: github.ts:557-605
ClosedPullsListed ==
  /\ pc = "awaitClosed"
  /\ op = "findMergedReleasePR"
  /\ requests' = Answer(OK)
  /\ result' = Returned(MergedReleasePR)
  /\ pc' = "done"
  /\ UNCHANGED <<moduleVars, instVars, op, args, hostVars, localVars>>

\* a listing fails: nothing catches the error
ListPullsFail ==
  /\ pc \in {"awaitClosed", "awaitOpen"}
  /\ op \in {"findMergedReleasePR", "findOpenReleasePRs", "latestTag", "openPR"}
  /\ \E status \in {OtherStatus, NotFoundStatus} :
       /\ requests' = Answer(status)
       /\ result' = Thrown(status)
  /\ pc' = "failed"
  /\ UNCHANGED <<moduleVars, instVars, op, args, hostVars, localVars>>

\* github.ts:636-645: the loop over the expected labels, from the i-th
RECURSIVE ExpectedLabelsFrom(_, _, _, _)
ExpectedLabelsFrom(labels, i, observedLabels, hasAllLabels) ==
  IF i > Len(labels) THEN hasAllLabels
  ELSE IF labels[i] \in observedLabels
       THEN ExpectedLabelsFrom(labels, i + 1, observedLabels, TRUE)
       ELSE FALSE

\* github.ts:632-648: the loop over the page, from its i-th pull request
RECURSIVE OpenReleasePRsFrom(_, _, _)
OpenReleasePRsFrom(page, i, labels) ==
  IF i > Len(page) THEN <<>>
  ELSE
    LET pull == page[i]
        continue == OpenReleasePRsFrom(page, i + 1, labels)
    IN  IF pull.base = <<>> \/ pull.base[1] # BaseLabel THEN continue
        ELSE IF ExpectedLabelsFrom(labels, 1, pull.labels, FALSE)
             THEN <<pull>> \o continue
             ELSE continue

\* The arguments of the running findOpenReleasePRs: the caller's, or those
\* openPR passes (github.ts:711).
OpenArguments ==
  IF op = "openPR"
  THEN [labels |-> args.labels, perPage |-> DefaultPerPage]
  ELSE args

\* findOpenReleasePRs(labels, perPage), up to getBaseLabel
FindOpenReleasePRs ==
  /\ Idle
  /\ \E labels \in LabelLists, perPage \in {1, DefaultPerPage} :
       args' = [labels |-> labels, perPage |-> perPage]
  /\ op' = "findOpenReleasePRs"
  /\ pc' = "findOpen"
  /\ requests' = <<>>
  /\ result' = Returned(<<>>)
  /\ UNCHANGED <<moduleVars, instVars, hostVars, localVars>>

\* github.ts:623-631: GET pulls?state=open
ListOpenPulls ==
  /\ pc = "findOpen"
  /\ defaultBranch # <<>>
  /\ Outstanding = {}
  /\ requests' = Append(requests,
       Request("GET pulls", [state |-> "open",
                             perPage |-> OpenArguments.perPage]))
  /\ pc' = "awaitOpen"
  /\ UNCHANGED <<moduleVars, instVars, op, args, result, hostVars, localVars>>

\* the listing arrives: github.ts:632-648
OpenPullsListed ==
  /\ pc = "awaitOpen"
  /\ op = "findOpenReleasePRs"
  /\ requests' = Answer(OK)
  /\ pullsResponse' = FirstPage(openPulls, Awaited.arg.perPage)
  /\ result' = Returned(OpenReleasePRsFrom(pullsResponse', 1, args.labels))
  /\ pc' = "done"
  /\ UNCHANGED <<moduleVars, instVars, op, args, hostVars, commitVars, tagVars,
                 openReleasePR, changes, update, prNumber, repeated>>

(***************************************************************************)
(* The pull requests the host may hold.                                    *)
(***************************************************************************)
\* most pull requests in a listing of the host
MaxPulls == 2

OtherBranch == <<"n", "e", "x", "t">>
LabelSets == {{}, {"release-please"}, {"release-please", "autorelease: pending"}}
BaseLabels == {<<Owner \o <<":">> \o Main>>, <<Owner \o <<":">> \o OtherBranch>>}

HeadMyPkg == <<"o", "w", "n", "e", "r", ":", "r", "e", "l", "e", "a", "s", "e", "-", "m", "y", "p", "k", "g", "-", "v", "1", ".", "2", ".", "3">>
HeadPlain == <<"o", "w", "n", "e", "r", ":", "r", "e", "l", "e", "a", "s", "e", "-", "v", "1", ".", "2", ".", "4">>
HeadPre == <<"o", "w", "n", "e", "r", ":", "r", "e", "l", "e", "a", "s", "e", "-", "v", "2", ".", "0", ".", "0", "-", "b", "e", "t", "a">>
HeadShort == <<"o", "w", "n", "e", "r", ":", "r", "e", "l", "e", "a", "s", "e", "-", "m", "y", "p", "k", "g", "-", "v", "1", ".", "2">>
HeadFeature == <<"o", "w", "n", "e", "r", ":", "f", "e", "a", "t", "u", "r", "e">>
HeadLabels == {<<>>, <<HeadMyPkg>>, <<HeadPlain>>, <<HeadPre>>, <<HeadShort>>,
               <<HeadFeature>>}

\* The closed pull requests at position n of a listing; number and merge
\* commit are told by the position.  The first is any combination of the
\* attributes; a later one is a release of the tracked branch, or differs
\* from one in one attribute.
ClosedPullsAt(n) ==
  IF n = 1
  THEN [number : {n}, labels : LabelSets, base : BaseLabels, head : HeadLabels,
        merged : BOOLEAN, sha : {10 + n}]
  ELSE LET release(head) ==
             [number |-> n, labels |-> {"release-please", "autorelease: pending"},
              base |-> <<Owner \o <<":">> \o Main>>, head |-> <<head>>,
              merged |-> TRUE, sha |-> 10 + n]
       IN  {release(HeadMyPkg), release(HeadPlain), release(HeadPre),
            [release(HeadPlain) EXCEPT !.merged = FALSE],
            [release(HeadMyPkg) EXCEPT !.labels = {"release-please"}],
            [release(HeadPlain) EXCEPT !.base = <<Owner \o <<":">> \o OtherBranch>>]}

Refs == {<<"r", "e", "l", "e", "a", "s", "e", "-", "v", "1", ".", "2", ".", "4">>, <<"r", "e", "l", "e", "a", "s", "e", "-", "v", "1">>}
Bodies == {"body 1", "body 2"}
OpenPullsAt(n) ==
  [number : {n}, labels : LabelSets, base : BaseLabels, ref : Refs,
   body : IF n = 1 THEN Bodies ELSE {"body 1"}]

\* the listings of up to MaxPulls pull requests
Listings(At(_)) ==
  UNION {{l \in [1..n -> UNION {At(i) : i \in 1..n}] :
            \A i \in 1..n : l[i] \in At(i)} : n \in 0..MaxPulls}

InitPulls ==
  /\ probotMode = FALSE
  /\ instances = NotConstructed
  /\ sent = <<>>
  /\ defaultBranch \in {<<>>, Main}
  /\ lookups = 0
  /\ pc = "idle"
  /\ op = "none"
  /\ args = <<>>
  /\ requests = <<>>
  /\ result = Returned(<<>>)
  /\ history = <<>>
  /\ \/ closedPulls \in Listings(ClosedPullsAt) /\ openPulls = <<>>
     \/ closedPulls = <<>> /\ openPulls \in Listings(OpenPullsAt)
  /\ FewWhileUnresolved(Len(closedPulls) + Len(openPulls))
  /\ repoTags = <<>>
  /\ commits = <<>>
  /\ cursor = 0
  /\ retries = 0
  /\ tags = <<>>
  /\ tagPage = 1
  /\ files = {}
  /\ issues = <<>>
  /\ pullsResponse = <<>>
  /\ openReleasePR = <<>>
  /\ changes = <<>>
  /\ update = 1
  /\ prNumber = 0
  /\ repeated = FALSE

NextPulls ==
  \/ GetDefaultBranch
  \/ GetDefaultBranchOK
  \/ GetDefaultBranchFail
  \/ FindMergedReleasePR
  \/ ListClosedPulls
  \/ ClosedPullsListed
  \/ FindOpenReleasePRs
  \/ ListOpenPulls
  \/ OpenPullsListed
  \/ ListPullsFail
  \/ Return

SpecPulls == InitPulls /\ [][NextPulls]_vars

(***************************************************************************)
(* Claims about the pull-request matcher.                                  *)
(***************************************************************************)
\* the label set of the pull request holds every required label
SupersetOf(labels, pull) == \A i \in 1..Len(labels) : labels[i] \in pull.labels

AgainstTrackedBranch(pull) == pull.base = <<Owner \o <<":">> \o defaultBranch>>

\* C8: findOpenReleasePRs returns, in listing order, exactly the open pull
\* requests of the scanned page whose base label is <owner>:<defaultBranch>
\* and whose labels are a superset of the required labels; an empty
\* requirement matches every such pull request.
C8_OpenReleasePRs ==
  (op = "findOpenReleasePRs" /\ pc = "done") =>
    LET Matches(pull) == AgainstTrackedBranch(pull) /\ SupersetOf(args.labels, pull)
    IN  result = Returned(SelectSeq(pullsResponse, Matches))

\* the conditions of C9 on one pull request
Qualifies(pull, labels, prefix, preRelease) ==
  /\ SupersetOf(labels, pull)
  /\ AgainstTrackedBranch(pull)
  /\ pull.head # <<>>
  /\ pull.merged
  /\ LET match == VersionFromBranch(pull.head[1])
     IN  /\ match # <<>>
         /\ SemverValid(match[1].version) # <<>>
         /\ match[1].prefix = prefix
         /\ preRelease \/ \A i \in 1..Len(match[1].version) : match[1].version[i] # "-"

Version123 == <<"1", ".", "2", ".", "3">>

\* C9: findMergedReleasePR returns the first pull request of the scanned
\* page, in its order, that has all required labels (none required: any),
\* is against <owner>:<defaultBranch>, has a head label of the release
\* pattern with a valid version, was merged, carries exactly the requested
\* package prefix (both absent or both equal) and, unless preRelease, no
\* hyphen in its version; it returns undefined if and only if the page
\* has none.  A head owner:release-mypkg-v1.2.3 gives version 1.2.3 for
\* prefix mypkg and undefined without a prefix.
C9_FirstMergedRelease ==
  (op = "findMergedReleasePR" /\ pc = "done") =>
    LET page == FirstPage(closedPulls, args.perPage)
        found == {i \in 1..Len(page) :
                    Qualifies(page[i], args.labels, args.prefix, args.preRelease)}
        first == CHOOSE i \in found : \A j \in found : i <= j
    IN  /\ found = {} <=> result = Returned(<<>>)
        /\ found # {} =>
             result = Returned(<<[number |-> page[first].number,
                                  sha |-> page[first].sha,
                                  version |-> SemverValid(
                                    VersionFromBranch(page[first].head[1])[1].version)]>>)
        /\ (/\ Len(page) = 1
            /\ page[1].head = <<HeadMyPkg>>
            /\ page[1].merged
            /\ AgainstTrackedBranch(page[1])
            /\ SupersetOf(args.labels, page[1])) =>
             /\ args.prefix = MyPkg => result.value[1].version = Version123
             /\ args.prefix = <<>> => result.value = <<>>

\* C9 witness: the first pull request of the page is a merged release of
\* package mypkg, the caller asks without a prefix, and the second pull
\* request of the page is returned.
C9_Witness ==
  /\ op = "findMergedReleasePR" /\ pc = "done"
  /\ args.prefix = <<>>
  /\ args.labels = <<"release-please">>
  /\ Len(closedPulls) = 2
  /\ Qualifies(closedPulls[1], args.labels, MyPkg, args.preRelease)
  /\ result.value # <<>>
  /\ result.value[1].number = 2

(***************************************************************************)
(* TagResolver: latestTag, latestTagFallback, allTags (github.ts:456-537). *)
(*                                                                         *)
(* A tag of the host is a record [name, sha].  An entry of the object      *)
(* `tags` of allTags is [version, name, sha]; the entries are kept in the  *)
(* order in which their keys were first set (the order of Object.keys).    *)
(***************************************************************************)
\* the size of a page of the tag listing (per_page=100 at github.ts:521,
\* scaled down)
TagsPerPage == 1

\* the page of the tag listing the iterator has asked for
TagPageOf(page) ==
  SubSeq(repoTags, (page - 1) * TagsPerPage + 1,
         Min(page * TagsPerPage, Len(repoTags)))

HasNextTagPage(page) == page * TagsPerPage < Len(repoTags)

UndefinedWord == <<"u", "n", "d", "e", "f", "i", "n", "e", "d">>

\* s.replace(pattern, ''): the first occurrence of pattern is removed
ReplaceFirst(s, pattern) ==
  LET at == {i \in 0..(Len(s) - Len(pattern)) :
               SubSeq(s, i + 1, i + Len(pattern)) = pattern}
      i == CHOOSE k \in at : \A j \in at : k <= j
  IN  IF at = {} THEN s
      ELSE SubSeq(s, 1, i) \o From(s, i + Len(pattern) + 1)

\* tags[version] = tag: an existing key keeps its place
SetEntry(entries, tag) ==
  IF \E i \in 1..Len(entries) : entries[i].version = tag.version
  THEN [i \in 1..Len(entries) |->
          IF entries[i].version = tag.version THEN tag ELSE entries[i]]
  ELSE Append(entries, tag)

\* github.ts:526-534: the forEach over one page, from its i-th tag;
\* data.name.replace(undefined, '') removes the word "undefined"
RECURSIVE CollectTags(_, _, _, _)
CollectTags(entries, page, i, prefix) ==
  IF i > Len(page) THEN entries
  ELSE
    LET data == page[i]
        version == SemverValid(ReplaceFirst(data.name,
                     IF prefix = <<>> THEN UndefinedWord ELSE prefix))
    IN  IF prefix # <<>> /\ ~StartsWith(data.name, prefix)
        THEN CollectTags(entries, page, i + 1, prefix)
        ELSE IF version # <<>>
        THEN CollectTags(
               SetEntry(entries, [version |-> version, name |-> data.name,
                                  sha |-> data.sha]),
               page, i + 1, prefix)
        ELSE CollectTags(entries, page, i + 1, prefix)

\* suffix.replace(/[a-zA-Z.]/, ''): the first letter or dot is removed
StripFirstLetter(suffix) ==
  LET at == {i \in 1..Len(suffix) : suffix[i] \in Letter \cup {"."}}
      i == CHOOSE k \in at : \A j \in at : k <= j
  IN  IF at = {} THEN suffix
      ELSE SubSeq(suffix, 1, i - 1) \o From(suffix, i + 1)

\* s.padStart(6, '0')
PadStart6(s) == [i \in 1..(IF Len(s) < 6 THEN 6 - Len(s) ELSE 0) |-> "0"] \o s

\* github.ts:497-504: what the comparator makes of a version
Padded(v) ==
  IF IndexOf(v, "-") = 0 THEN v
  ELSE LET parts == Split(v, "-")
       IN  parts[1] \o <<"-">> \o PadStart6(StripFirstLetter(parts[2]))

\* the pre-release filter that lets every version through
KeepAll(version, preRelease) == TRUE

\* github.ts:486-489: a version the filter keeps
Keeps(version, preRelease) == preRelease \/ IndexOf(version, "-") = 0

\* github.ts:486-511: latestTagFallback once allTags has returned.
\* semver.rcompare throws on a string that is no version, and the
\* comparator is called on every element when there are two or more; the
\* sort is stable, so of the versions that rank first the one with the
\* earliest key is versions[0].
Fallback(entries, preRelease) ==
  LET versions == SelectSeq([i \in 1..Len(entries) |-> entries[i].version],
                            LAMBDA v : Keeps(v, preRelease))
      top == {i \in 1..Len(versions) :
                \A j \in 1..Len(versions) :
                   SemverCompare(Padded(versions[j]), Padded(versions[i])) <= 0}
      first == CHOOSE i \in top : \A j \in top : i <= j
      entry == CHOOSE e \in {entries[i] : i \in 1..Len(entries)} :
                 e.version = versions[first]
  IN  IF Len(versions) = 0 THEN Returned(<<>>)
      ELSE IF Len(versions) >= 2
              /\ \E i \in 1..Len(versions) : ~IsSemver(Padded(versions[i]))
      THEN Thrown(NoStatus)
      ELSE Returned(<<[name |-> entry.name, sha |-> entry.sha,
                       version |-> entry.version]>>)

TagPrefix == <<"m", "y", "p", "k", "g", "-">>

\* latestTag(prefix, preRelease, branchPrefix), up to getBaseLabel of
\* findMergedReleasePR
LatestTag ==
  /\ Idle
  /\ \E prefix \in {<<>>, TagPrefix}, preRelease \in BOOLEAN,
        branchPrefix \in {<<>>, MyPkg} :
       args' = [prefix |-> prefix, preRelease |-> preRelease,
                branchPrefix |-> branchPrefix]
  /\ op' = "latestTag"
  /\ pc' = "findMerged"
  /\ requests' = <<>>
  /\ result' = Returned(<<>>)
  /\ UNCHANGED <<moduleVars, instVars, hostVars, localVars>>

\* the fallback is taken whatever findMergedReleasePR returned
NoPullEver(pull) == TRUE

\* github.ts:470: if (!pull)
NoPull(pull) == pull = <<>>

\* github.ts:470-476: findMergedReleasePR has returned to latestTag
LatestTagPull ==
  /\ pc = "awaitClosed"
  /\ op = "latestTag"
  /\ requests' = Answer(OK)
  /\ LET pull == MergedReleasePR
     IN  IF NoPull(pull)
         THEN /\ pc' = "allTags"
              /\ tags' = <<>>
              /\ tagPage' = 1
              /\ UNCHANGED result
         ELSE /\ pc' = "done"
              /\ result' = Returned(<<[name |-> <<"v">> \o pull[1].version,
                                       sha |-> pull[1].sha,
                                       version |-> pull[1].version]>>)
              /\ UNCHANGED tagVars
  /\ UNCHANGED <<moduleVars, instVars, op, args, hostVars, commitVars, syncVars>>

\* github.ts:518-525: the iterator asks for the next page of tags
ListTags ==
  /\ pc = "allTags"
  /\ Outstanding = {}
  /\ requests' = Append(requests, Request("GET tags", [page |-> tagPage]))
  /\ pc' = "awaitTags"
  /\ UNCHANGED <<moduleVars, instVars, op, args, result, hostVars, localVars>>

\* a page of tags arrives: github.ts:526-534, and after the last page
\* github.ts:486-511
TagsListed ==
  /\ pc = "awaitTags"
  /\ requests' = Answer(OK)
  /\ LET entries == CollectTags(tags, TagPageOf(tagPage), 1, args.prefix)
     IN  /\ tags' = entries
         /\ IF HasNextTagPage(tagPage)
            THEN /\ tagPage' = tagPage + 1
                 /\ pc' = "allTags"
                 /\ UNCHANGED result
            ELSE /\ result' = Fallback(entries, args.preRelease)
                 /\ pc' = IF Fallback(entries, args.preRelease).ok
                          THEN "done" ELSE "failed"
                 /\ UNCHANGED tagPage
  /\ UNCHANGED <<moduleVars, instVars, op, args, hostVars, commitVars, syncVars>>

\* the tag listing fails: nothing catches the error
ListTagsFail ==
  /\ pc = "awaitTags"
  /\ \E status \in {OtherStatus, NotFoundStatus} :
       /\ requests' = Answer(status)
       /\ result' = Thrown(status)
  /\ pc' = "failed"
  /\ UNCHANGED <<moduleVars, instVars, op, args, hostVars, localVars>>

\* most tags in the repository
MaxTags == 2

TagNames ==
  {<<"v", "1", ".", "0", ".", "0">>,
   <<"1", ".", "0", ".", "0">>,
   <<"v", "1", ".", "1", ".", "0", "-", "b", "e", "t", "a">>,
   <<"m", "y", "p", "k", "g", "-", "v", "2", ".", "0", ".", "0">>,
   <<"l", "a", "t", "e", "s", "t">>,
   <<"v", "1", ".", "1", ".", "0", "-", "2">>,
   <<"v", "1", ".", "1", ".", "0", "-", "1", "0">>}

\* the tag listings of up to MaxTags tags; the sha is told by the position
TagListings ==
  UNION {{l \in [1..n -> [name : TagNames, sha : 21..(20 + n)]] :
            \A i \in 1..n : l[i].sha = 20 + i} : n \in 0..MaxTags}

\* merged release pull requests of the tracked branch
MergedReleases ==
  {[number |-> 1, labels |-> {"release-please"},
    base |-> <<Owner \o <<":">> \o Main>>, head |-> <<head>>,
    merged |-> TRUE, sha |-> 11] : head \in {HeadMyPkg, HeadPlain, HeadPre}}

InitTags ==
  /\ probotMode = FALSE
  /\ instances = NotConstructed
  /\ sent = <<>>
  /\ defaultBranch \in {<<>>, Main}
  /\ lookups = 0
  /\ pc = "idle"
  /\ op = "none"
  /\ args = <<>>
  /\ requests = <<>>
  /\ result = Returned(<<>>)
  /\ history = <<>>
  /\ closedPulls \in {<<>>} \cup {<<pull>> : pull \in MergedReleases}
  /\ openPulls = <<>>
  /\ repoTags \in TagListings
  /\ FewWhileUnresolved(Len(repoTags))
  /\ commits = <<>>
  /\ cursor = 0
  /\ retries = 0
  /\ tags = <<>>
  /\ tagPage = 1
  /\ files = {}
  /\ issues = <<>>
  /\ pullsResponse = <<>>
  /\ openReleasePR = <<>>
  /\ changes = <<>>
  /\ update = 1
  /\ prNumber = 0
  /\ repeated = FALSE

NextTags ==
  \/ GetDefaultBranch
  \/ GetDefaultBranchOK
  \/ GetDefaultBranchFail
  \/ LatestTag
  \/ ListClosedPulls
  \/ LatestTagPull
  \/ ListPullsFail
  \/ ListTags
  \/ TagsListed
  \/ ListTagsFail
  \/ Return

SpecTags == InitTags /\ [][NextTags]_vars

(***************************************************************************)
(* Claims about the tag resolver.                                          *)
(***************************************************************************)
\* no pull request of the page latestTag scans is a merged release that
\* matches
NoMergedReleaseMatches ==
  \A i \in 1..Len(FirstPage(closedPulls, DefaultPerPage)) :
    ~Qualifies(closedPulls[i], <<>>, Coalesce(args.branchPrefix, args.prefix),
               args.preRelease)

Admitted(tag, prefix, preRelease) ==
  /\ prefix # <<>> => StartsWith(tag.name, prefix)
  /\ LET version == SemverValid(From(tag.name, Len(prefix) + 1))
     IN  /\ version # <<>>
         /\ preRelease \/ \A i \in 1..Len(version) : version[i] # "-"

MaxUpdates == 2

RefsHeads == <<"r", "e", "f", "s", "/", "h", "e", "a", "d", "s", "/">>

\* github.ts:709: `refs/heads/${options.branch}`
RefName(branch) == RefsHeads \o branch

\* github.ts:712-717: the first candidate whose head ref refName includes,
\* from the i-th; <<>> when the loop ends without one
RECURSIVE FirstIncludedFrom(_, _, _)
FirstIncludedFrom(releasePRCandidates, i, refName) ==
  IF i > Len(releasePRCandidates) THEN <<>>
  ELSE IF Includes(refName, releasePRCandidates[i].ref)
       THEN <<releasePRCandidates[i]>>
       ELSE FirstIncludedFrom(releasePRCandidates, i + 1, refName)

\* github.ts:720: the short-circuit when the body has not changed
RemainedTheSame(found, body) == found # <<>> /\ found[1].body = body

\* github.ts:858-865
QualifyRef(refName) ==
  IF IndexOf(refName, "/") = 0 THEN RefsHeads \o refName ELSE refName

\* what the host stores for a text and Buffer.from(_, 'base64').toString
Base64(text) == <<"base64">> \o text
FromBase64(content) == Tail(content)

\* the text of a file of the default branch
TextOf(path) == <<"text of", path>>

\* github.ts:884-888, 923-927: the GitHubFileContents of a response
FileContents(path) ==
  [sha |-> <<"sha of", path>>, content |-> Base64(TextOf(path)),
   parsedContent |-> FromBase64(Base64(TextOf(path)))]

\* update.updateContent(contentText): an updater that writes the new
\* version into the text it is given, or one that yields no text
UpdateContent(updater, contentText) ==
  IF updater = "nothing" THEN <<>>
  ELSE <<"updated">> \o (IF contentText = <<>> THEN <<>> ELSE contentText[1])

\* changes.set(path, change): a Map keeps the place of a key it has
SetChange(entries, path, change) ==
  IF \E i \in 1..Len(entries) : entries[i].path = path
  THEN [i \in 1..Len(entries) |->
          IF entries[i].path = path
          THEN [path |-> path, change |-> change] ELSE entries[i]]
  ELSE Append(entries, [path |-> path, change |-> change])

\* the change is set whether or not the updater yielded a text
WithUpdateAlways(entries, upd, content) ==
  LET contentText ==
        IF content # <<>> THEN <<FromBase64(content[1].data.content)>> ELSE <<>>
  IN  SetChange(entries, upd.path,
                [content |-> UpdateContent(upd.updater, contentText),
                 mode |-> "100644"])

\* github.ts:805-814: the rest of the loop body once content is known;
\* content is <<>> while undefined, else <<{data}>>
WithUpdate(entries, upd, content) ==
  LET contentText ==
        IF content # <<>> THEN <<FromBase64(content[1].data.content)>> ELSE <<>>
      updatedContent == UpdateContent(upd.updater, contentText)
  IN  IF updatedContent # <<>>
      THEN SetChange(entries, upd.path,
                     [content |-> updatedContent, mode |-> "100644"])
      ELSE entries

\* openPR returns 0 whatever the creation step produced
SynchronizedNoChange(found, created) == 0

\* github.ts:768-770: the result of openPR after the creation step

Synchronized(found, created) ==
  IF found # <<>> THEN found[1].number ELSE created

\* the update the loop of getChangeSet is at
Update == args.updates[update]

\* ---- the host's side of the creation step and of the PATCH ----
RECURSIVE MaxNumber(_)
MaxNumber(pulls) ==
  IF pulls = <<>> THEN 0
  ELSE LET rest == MaxNumber(Tail(pulls))
       IN  IF pulls[1].number > rest THEN pulls[1].number ELSE rest

\* createPullRequest of code-suggester: no pull request for an empty change
\* set (number 0); the open pull request of the branch is kept when there
\* is one; else a pull request is opened, and listed first
HasBranch(pull, options) ==
  pull.ref = options.branch /\ pull.base = <<Owner \o <<":">> \o options.primary>>

SuggestedNumber(pulls, options) ==
  IF options.changes = <<>> THEN 0
  ELSE IF \E i \in 1..Len(pulls) : HasBranch(pulls[i], options)
       THEN pulls[CHOOSE i \in 1..Len(pulls) :
                    /\ HasBranch(pulls[i], options)
                    /\ \A j \in 1..(i - 1) : ~HasBranch(pulls[j], options)].number
       ELSE MaxNumber(pulls) + 1

Suggested(pulls, options) ==
  IF options.changes = <<>> \/ \E i \in 1..Len(pulls) : HasBranch(pulls[i], options)
  THEN pulls
  ELSE <<[number |-> MaxNumber(pulls) + 1, labels |-> {},
          base |-> <<Owner \o <<":">> \o options.primary>>,
          ref |-> options.branch, body |-> options.description]>> \o pulls

\* PATCH pulls/:pull_number with title, body and state
Patched(pulls, patch) ==
  [i \in 1..Len(pulls) |->
     IF pulls[i].number = patch.pull_number
     THEN [pulls[i] EXCEPT !.body = patch.body] ELSE pulls[i]]

\* ---- openPR ----
ReleaseBranch == <<"r", "e", "l", "e", "a", "s", "e", "-", "v", "1", ".", "2", ".", "4">>
PackageJson == "package.json"
Changelog == "CHANGELOG.md"
Paths == {PackageJson, Changelog}

\* the updates of a descriptor: none; a file that is fetched; a file to
\* create, then one whose contents are loaded; a file that is not created;
\* a file whose updater yields no text, then a file to create
UpdateLists ==
  {<<>>,
   <<[path |-> PackageJson, create |-> FALSE, contents |-> <<>>,
      updater |-> "version"]>>,
   <<[path |-> Changelog, create |-> TRUE, contents |-> <<>>,
      updater |-> "version"],
     [path |-> PackageJson, create |-> FALSE,
      contents |-> <<FileContents(PackageJson)>>, updater |-> "version"]>>,
   <<[path |-> Changelog, create |-> FALSE, contents |-> <<>>,
      updater |-> "version"]>>,
   <<[path |-> PackageJson, create |-> FALSE, contents |-> <<>>,
      updater |-> "nothing"],
     [path |-> Changelog, create |-> TRUE, contents |-> <<>>,
      updater |-> "version"]>>}

\* openPR(options), up to the first getDefaultBranch (github.ts:705); the
\* second, in getBaseLabel, finds the branch resolved
OpenPR ==
  /\ Idle
  /\ \E labels \in {<<>>, <<"release-please">>},
        updates \in {l \in UpdateLists : Len(l) <= MaxUpdates} :
       args' = [branch |-> ReleaseBranch, title |-> "chore: release 1.2.4",
                body |-> "body 1", labels |-> labels, fork |-> FALSE,
                updates |-> updates]
  /\ repeated' = (op = "openPR" /\ args = args')
  /\ op' = "openPR"
  /\ pc' = "findOpen"
  /\ requests' = <<>>
  /\ result' = Returned(<<>>)
  /\ UNCHANGED <<moduleVars, instVars, hostVars, commitVars, tagVars, pullsResponse,
                 openReleasePR, changes, update, prNumber>>

\* github.ts:711-727: the candidates arrive
ReleasePRCandidates ==
  /\ pc = "awaitOpen"
  /\ op = "openPR"
  /\ requests' = Answer(OK)
  /\ pullsResponse' = FirstPage(openPulls, Awaited.arg.perPage)
  /\ openReleasePR' =
       FirstIncludedFrom(OpenReleasePRsFrom(pullsResponse', 1, args.labels), 1,
                         RefName(args.branch))
  /\ IF RemainedTheSame(openReleasePR', args.body)
     THEN pc' = "done" /\ result' = Returned(0)
     ELSE pc' = "getChangeSet" /\ UNCHANGED result
  /\ UNCHANGED <<moduleVars, instVars, op, args, hostVars, commitVars, tagVars, changes,
                 update, prNumber, repeated>>

\* ---- getChangeSet and getFileContentsOnBranch ----
\* the arguments of the running getFileContentsOnBranch: those getChangeSet
\* passes (github.ts:787-790), or the caller's
FetchPath == IF op = "openPR" THEN Update.path ELSE args.path
FetchBranch == IF op = "openPR" THEN defaultBranch ELSE args.branch

\* getFileContentsOnBranch(path, branch), called on its own
GetFileContentsOnBranch ==
  /\ Idle
  /\ \E path \in Paths : args' = [path |-> path, branch |-> Main]
  /\ op' = "getFileContentsOnBranch"
  /\ pc' = "getContents"
  /\ requests' = <<>>
  /\ result' = Returned(<<>>)
  /\ UNCHANGED <<moduleVars, instVars, hostVars, localVars>>

\* the loop goes to the next update
NextUpdate ==
  /\ update' = update + 1
  /\ pc' = "getChangeSet"

\* github.ts:782-785, 805-814: the contents were loaded earlier
LoadedContents ==
  /\ pc = "getChangeSet"
  /\ update <= Len(args.updates)
  /\ Update.contents # <<>>
  /\ changes' = WithUpdate(changes, Update, <<[data |-> Update.contents[1]]>>)
  /\ NextUpdate
  /\ UNCHANGED <<moduleVars, instVars, op, args, requests, result, hostVars, commitVars,
                 tagVars, pullsResponse, openReleasePR, prNumber, repeated>>

\* github.ts:787-790, 871-883: GET contents/:path
GetFileContents ==
  /\ \/ /\ pc = "getChangeSet"
        /\ update <= Len(args.updates)
        /\ Update.contents = <<>>
     \/ pc = "getContents"
  /\ requests' = Append(requests,
       Request("GET contents", [path |-> FetchPath,
                                ref |-> QualifyRef(FetchBranch)]))
  /\ pc' = "awaitContents"
  /\ UNCHANGED <<moduleVars, instVars, op, args, result, hostVars, localVars>>

\* the catch of getChangeSet takes every error for a missing file
FetchFailedAsMissing(status) ==
  IF op # "openPR"
  THEN /\ pc' = "failed"
       /\ result' = Thrown(status)
       /\ UNCHANGED <<changes, update>>
  ELSE /\ changes' = IF Update.create THEN WithUpdate(changes, Update, <<>>)
                     ELSE changes
       /\ NextUpdate
       /\ UNCHANGED result

\* The error leaves getFileContentsOnBranch.  A caller has it; in openPR
\* the catch of getChangeSet has it (github.ts:793-804): an error with
\* another status than 404 is thrown on; a missing file is skipped, or
\* created from no text.
FetchFailed(status) ==
  IF op # "openPR" \/ status # NotFoundStatus
  THEN /\ pc' = "failed"
       /\ result' = Thrown(status)
       /\ UNCHANGED <<changes, update>>
  ELSE /\ changes' = IF Update.create THEN WithUpdate(changes, Update, <<>>)
                     ELSE changes
       /\ NextUpdate
       /\ UNCHANGED result

\* the file arrives, from the simple API or as a blob, and
\* getFileContentsOnBranch returns it
Fetched ==
  /\ requests' = Answer(OK)
  /\ IF op = "openPR"
     THEN /\ changes' = WithUpdate(changes, Update,
                                   <<[data |-> FileContents(Awaited.arg.path)]>>)
          /\ NextUpdate
          /\ UNCHANGED result
     ELSE /\ pc' = "done"
          /\ result' = Returned(FileContents(Awaited.arg.path))
          /\ UNCHANGED <<changes, update>>

\* github.ts:884-888
FileContentsOK ==
  /\ pc = "awaitContents"
  /\ FetchPath \in files
  /\ Fetched
  /\ UNCHANGED <<moduleVars, instVars, op, args, hostVars, commitVars, tagVars,
                 pullsResponse, openReleasePR, prNumber, repeated>>

\* the fallback is taken for a missing file too
FallsBackWhenNotFound(status) == status \in {ForbiddenStatus, NotFoundStatus}

\* github.ts:944: if (err.status === 403)
FallsBack(status) == status = ForbiddenStatus

\* github.ts:943-947, 895-905: on 403 the data API is asked for the tree
\* of the branch; any other error is thrown on to getChangeSet
FileContentsFail ==
  /\ pc = "awaitContents"
  /\ \E status \in {ForbiddenStatus, OtherStatus}
                   \cup (IF FetchPath \in files THEN {} ELSE {NotFoundStatus}) :
       IF FallsBack(status)
       THEN /\ requests' = Append(Answer(status),
                 Request("GET trees", [branch |-> FetchBranch]))
            /\ pc' = "awaitTree"
            /\ UNCHANGED <<result, changes, update>>
       ELSE /\ requests' = Answer(status)
            /\ FetchFailed(status)
  /\ UNCHANGED <<moduleVars, instVars, op, args, hostVars, commitVars, tagVars,
                 pullsResponse, openReleasePR, prNumber, repeated>>

\* github.ts:907-921: the tree arrives; a path it does not hold is an Error
\* without a status, else the blob is asked for
RepoTree ==
  /\ pc = "awaitTree"
  /\ IF FetchPath \in files
     THEN /\ requests' = Append(Answer(OK),
               Request("GET blobs", [path |-> FetchPath,
                                     sha |-> <<"sha of", FetchPath>>]))
          /\ pc' = "awaitBlob"
          /\ UNCHANGED <<result, changes, update>>
     ELSE /\ requests' = Answer(OK)
          /\ FetchFailed(NoStatus)
  /\ UNCHANGED <<moduleVars, instVars, op, args, hostVars, commitVars, tagVars,
                 pullsResponse, openReleasePR, prNumber, repeated>>

\* github.ts:923-927
Blob ==
  /\ pc = "awaitBlob"
  /\ Fetched
  /\ UNCHANGED <<moduleVars, instVars, op, args, hostVars, commitVars, tagVars,
                 pullsResponse, openReleasePR, prNumber, repeated>>

\* a request of the data API fails
DataAPIFail ==
  /\ pc \in {"awaitTree", "awaitBlob"}
  /\ \E status \in {NotFoundStatus, OtherStatus} :
       /\ requests' = Answer(status)
       /\ FetchFailed(status)
  /\ UNCHANGED <<moduleVars, instVars, op, args, hostVars, commitVars, tagVars,
                 pullsResponse, openReleasePR, prNumber, repeated>>

\* ---- openPR, from the creation step ----
\* github.ts:730-745
CreatePullRequest ==
  /\ pc = "getChangeSet"
  /\ update > Len(args.updates)
  /\ requests' = Append(requests,
       Request("createPullRequest",
               [changes |-> changes, upstreamOwner |-> Owner,
                title |-> args.title, branch |-> args.branch,
                description |-> args.body, primary |-> defaultBranch,
                force |-> TRUE, fork |-> args.fork, message |-> args.title]))
  /\ pc' = "awaitCreate"
  /\ UNCHANGED <<moduleVars, instVars, op, args, result, hostVars, localVars>>

\* github.ts:748-771: the creation step is through; an open release pull
\* request is patched, else the call returns
PullRequestCreated ==
  /\ pc = "awaitCreate"
  /\ openPulls' = Suggested(openPulls, Awaited.arg)
  /\ prNumber' = SuggestedNumber(openPulls, Awaited.arg)
  /\ IF openReleasePR # <<>>
     THEN /\ requests' = Append(Answer(OK),
               Request("PATCH pulls",
                       [pull_number |-> openReleasePR[1].number,
                        title |-> args.title, body |-> args.body,
                        state |-> "open"]))
          /\ pc' = "awaitPatch"
          /\ UNCHANGED result
     ELSE /\ requests' = Answer(OK)
          /\ pc' = "done"
          /\ result' = Returned(Synchronized(openReleasePR, prNumber'))
  /\ UNCHANGED <<moduleVars, instVars, op, args, history, closedPulls, repoTags, files, issues,
                 commitVars, tagVars, pullsResponse, openReleasePR, changes,
                 update, repeated>>

\* github.ts:768
PullRequestPatched ==
  /\ pc = "awaitPatch"
  /\ openPulls' = Patched(openPulls, Awaited.arg)
  /\ requests' = Answer(OK)
  /\ pc' = "done"
  /\ result' = Returned(Synchronized(openReleasePR, prNumber))
  /\ UNCHANGED <<moduleVars, instVars, op, args, history, closedPulls, repoTags, files, issues,
                 localVars>>

\* the error of the creation step or of the PATCH is caught and openPR
\* returns a number
SynchronizeFailCaught ==
  /\ pc \in {"awaitCreate", "awaitPatch"}
  /\ \E status \in {OtherStatus, NotFoundStatus} : requests' = Answer(status)
  /\ result' = Returned(Synchronized(openReleasePR, prNumber))
  /\ pc' = "done"
  /\ UNCHANGED <<moduleVars, instVars, op, args, hostVars, localVars>>

\* the creation step or the PATCH fails: nothing catches the error
SynchronizeFail ==
  /\ pc \in {"awaitCreate", "awaitPatch"}
  /\ \E status \in {OtherStatus, NotFoundStatus} :
       /\ requests' = Answer(status)
       /\ result' = Thrown(status)
  /\ pc' = "failed"
  /\ UNCHANGED <<moduleVars, instVars, op, args, hostVars, localVars>>

\* ---- removeLabels (github.ts:975-996) ----
\* removeLabels(labels, prNumber), up to the first request
RemoveLabels ==
  /\ Idle
  /\ \E labels \in LabelLists :
       /\ args' = [labels |-> labels, prNumber |-> 1]
       /\ pc' = IF labels = <<>> THEN "done" ELSE "removeLabel"
  /\ op' = "removeLabels"
  /\ requests' = <<>>
  /\ result' = Returned(<<>>)
  /\ UNCHANGED <<moduleVars, instVars, hostVars, localVars>>

\* github.ts:984-994: DELETE issues/:issue_number/labels/:name for
\* labels[i], where i requests were made before
DeleteLabel ==
  /\ pc = "removeLabel"
  /\ requests' = Append(requests,
       Request("DELETE labels", [issue_number |-> args.prNumber,
                                 name |-> args.labels[Len(requests) + 1]]))
  /\ pc' = "awaitDelete"
  /\ UNCHANGED <<moduleVars, instVars, op, args, result, hostVars, localVars>>

\* the host has removed the label; github.ts:976: i++, i < labels.length
LabelDeleted ==
  /\ pc = "awaitDelete"
  /\ openPulls' =
       [k \in 1..Len(openPulls) |->
          IF openPulls[k].number = Awaited.arg.issue_number
          THEN [openPulls[k] EXCEPT !.labels = @ \ {Awaited.arg.name}]
          ELSE openPulls[k]]
  /\ requests' = Answer(OK)
  /\ pc' = IF Len(requests) < Len(args.labels) THEN "removeLabel" ELSE "done"
  /\ UNCHANGED <<moduleVars, instVars, op, args, result, history, closedPulls,
                 repoTags, files, issues, localVars>>

\* the request fails: nothing catches the error
DeleteLabelFail ==
  /\ pc = "awaitDelete"
  /\ \E status \in {OtherStatus, NotFoundStatus} :
       /\ requests' = Answer(status)
       /\ result' = Thrown(status)
  /\ pc' = "failed"
  /\ UNCHANGED <<moduleVars, instVars, op, args, hostVars, localVars>>

\* ---- the hosts and the specification of the synchronizer ----
RefShort == <<"r", "e", "l", "e", "a", "s", "e", "-", "v", "1">>
RefFeature == <<"f", "e", "a", "t", "u", "r", "e">>

\* The open pull requests at position n of a listing, numbered by the
\* position.  The first is any combination of the attributes; a later one
\* has the label and is against the default branch.
SyncPullsAt(n) ==
  [number : {n},
   labels : IF n = 1 THEN {{}, {"release-please"}} ELSE {{"release-please"}},
   base : IF n = 1 THEN BaseLabels ELSE {<<Owner \o <<":">> \o Main>>},
   ref : {ReleaseBranch, RefShort, RefFeature},
   body : Bodies]

InitSync ==
  /\ probotMode = FALSE
  /\ instances = NotConstructed
  /\ sent = <<>>
  /\ defaultBranch \in {<<>>, Main}
  /\ lookups = 0
  /\ pc = "idle"
  /\ op = "none"
  /\ args = <<>>
  /\ requests = <<>>
  /\ result = Returned(<<>>)
  /\ history = <<>>
  /\ closedPulls = <<>>
  /\ openPulls \in Listings(SyncPullsAt)
  /\ FewWhileUnresolved(Len(openPulls))
  /\ repoTags = <<>>
  /\ files = {PackageJson}
  /\ issues = <<>>
  /\ commits = <<>>
  /\ cursor = 0
  /\ retries = 0
  /\ tags = <<>>
  /\ tagPage = 1
  /\ pullsResponse = <<>>
  /\ openReleasePR = <<>>
  /\ changes = <<>>
  /\ update = 1
  /\ prNumber = 0
  /\ repeated = FALSE

NextSync ==
  \/ GetDefaultBranch
  \/ GetDefaultBranchOK
  \/ GetDefaultBranchFail
  \/ OpenPR
  \/ ListOpenPulls
  \/ ReleasePRCandidates
  \/ GetFileContentsOnBranch
  \/ ListPullsFail
  \/ LoadedContents
  \/ GetFileContents
  \/ FileContentsOK
  \/ FileContentsFail
  \/ RepoTree
  \/ Blob
  \/ DataAPIFail
  \/ CreatePullRequest
  \/ PullRequestCreated
  \/ PullRequestPatched
  \/ SynchronizeFail
  \/ RemoveLabels
  \/ DeleteLabel
  \/ LabelDeleted
  \/ DeleteLabelFail
  \/ Return

SpecSync == InitSync /\ [][NextSync]_vars

(***************************************************************************)
(* Claims about the synchronizer.  A pull request of the listing matches   *)
(* the descriptor when it is against the default branch, its labels hold   *)
(* every label of the descriptor (an empty list asks for none) and its     *)
(* head is the branch of the descriptor.                                   *)
(***************************************************************************)
\* openPR has the listing of the open pull requests
Scanned == op = "openPR" /\ pc \notin {"idle", "findOpen", "awaitOpen"}

RequestsOf(kind) == {i \in 1..Len(requests) : requests[i].kind = kind}

Labelled(pull) == AgainstTrackedBranch(pull) /\ SupersetOf(args.labels, pull)

\* the head of the pull request is the branch, or a part of its ref name
HeadIsBranch(pull) == Labelled(pull) /\ pull.ref = args.branch
HeadInRefName(pull) == Labelled(pull) /\ Includes(RefName(args.branch), pull.ref)

\* the i-th pull request of the listing matches the descriptor, and none
\* before it could be taken for a match
TheMatch(i) ==
  /\ i \in 1..Len(pullsResponse)
  /\ HeadIsBranch(pullsResponse[i])
  /\ \A j \in 1..(i - 1) : ~HeadInRefName(pullsResponse[j])

\* C2: whenever the listing holds an open pull request that matches the
\* labels and the branch of the descriptor and whose body is the body of the
\* descriptor, openPR returns 0 and issues no request after the listing.
C2_ShortCircuit ==
  (Scanned /\ \E i \in 1..Len(pullsResponse) :
                 TheMatch(i) /\ pullsResponse[i].body = args.body)
    => /\ pc = "done"
       /\ result = Returned(0)
       /\ Awaited.kind = "GET pulls"

\* C3: when an openPR call has succeeded and the host then lists an open
\* pull request against the default branch whose head is the branch of the
\* descriptor, whose body is its body and whose labels hold every label of
\* the descriptor (an empty list included), the same call made again returns
\* 0 and invokes neither the creation step nor a PATCH.
C3_RepeatIsNoChange ==
  (Scanned /\ repeated /\ \E i \in 1..Len(pullsResponse) :
                             TheMatch(i) /\ pullsResponse[i].body = args.body)
    => /\ pc = "done"
       /\ result = Returned(0)
       /\ RequestsOf("createPullRequest") = {}
       /\ RequestsOf("PATCH pulls") = {}

\* C4: when openPR returns and the listing held a matching open pull
\* request whose body differs from the body of the descriptor, the creation
\* step was invoked exactly once, with force = true and the default branch
\* as primary; after it completed exactly one PATCH was issued, to that pull
\* request, with the title and the body of the descriptor and state open;
\* and the value returned is the number of that pull request.
C4_UpdatesExisting ==
  (Scanned /\ pc = "done")
    => \A i \in 1..Len(pullsResponse) :
         (TheMatch(i) /\ pullsResponse[i].body # args.body)
           => /\ Cardinality(RequestsOf("createPullRequest")) = 1
              /\ Cardinality(RequestsOf("PATCH pulls")) = 1
              /\ \A c \in RequestsOf("createPullRequest") :
                   /\ requests[c].arg.force
                   /\ requests[c].arg.primary = defaultBranch
                   /\ requests[c].status = OK
                   /\ \A p \in RequestsOf("PATCH pulls") :
                        /\ c < p
                        /\ requests[p].arg =
                             [pull_number |-> pullsResponse[i].number,
                              title |-> args.title, body |-> args.body,
                              state |-> "open"]
              /\ result = Returned(pullsResponse[i].number)

C19_SelectedHeadIsBranch ==
  (op = "openPR" /\ pc # "idle") =>
    /\ openReleasePR # <<>> => openReleasePR[1].ref = args.branch
    /\ \A p \in RequestsOf("PATCH pulls") :
         \A i \in 1..Len(pullsResponse) :
           pullsResponse[i].number = requests[p].arg.pull_number
             => pullsResponse[i].ref = args.branch

(***************************************************************************)
(* Further claims about the tag resolver.                                  *)
(***************************************************************************)
\* the places in the page latestTag scans of the merged release pull
\* requests that match
MergedReleasePlaces ==
  {i \in 1..Len(FirstPage(closedPulls, DefaultPerPage)) :
     Qualifies(closedPulls[i], <<>>, Coalesce(args.branchPrefix, args.prefix),
               args.preRelease)}

\* C11: latestTag prefers the merged release pull request over the tags.
\* When a merged release pull request matches, latestTag never asks for the
\* tags, and it returns the tag named "v" + version with the merge commit
\* sha and the normalized version of the first such pull request; a request
\* for the tags is issued only when no merged pull request matched.
C11_PullBeforeTags ==
  (op = "latestTag" /\ pc # "idle") =>
    /\ RequestsOf("GET tags") # {} => MergedReleasePlaces = {}
    /\ (pc = "done" /\ MergedReleasePlaces # {}) =>
         LET first == CHOOSE i \in MergedReleasePlaces :
                        \A j \in MergedReleasePlaces : i <= j
             version == SemverValid(
                          VersionFromBranch(closedPulls[first].head[1])[1].version)
         IN  result = Returned(<<[name |-> <<"v">> \o version,
                                  sha |-> closedPulls[first].sha,
                                  version |-> version]>>)

\* C11 witness: the repository has tags and a merged release pull request
\* that matches, and latestTag has returned the tag of the pull request.
C11_Witness ==
  /\ op = "latestTag" /\ pc = "done"
  /\ MergedReleasePlaces # {}
  /\ Len(repoTags) = 2
  /\ result.value # <<>>
  /\ result.value[1].name = <<"v", "1", ".", "2", ".", "4">>
  /\ result.value[1].sha = 11

\* the version is x.y.z-n with n a number; its parts
NumericPre(version) ==
  /\ version # <<>>
  /\ IndexOf(version, "-") # 0
  /\ From(version, IndexOf(version, "-") + 1) # <<>>
  /\ AllIn(From(version, IndexOf(version, "-") + 1), Digit)
MainOf(version) == SubSeq(version, 1, IndexOf(version, "-") - 1)
PreOf(version) == From(version, IndexOf(version, "-") + 1)

\* C12: when the fallback has two tags whose versions are pre-releases that
\* differ only in the number of digits of their numeric pre-release part
\* (1.1.0-2 and 1.1.0-10), pre-releases included, and every request
\* succeeded, the comparison completes without an error and latestTag
\* returns the tag whose pre-release number is the larger.
C12_PaddedOrdering ==
  (/\ op = "latestTag" /\ Finished
   /\ MergedReleasePlaces = {}
   /\ args.preRelease /\ args.prefix = <<>>
   /\ \A i \in 1..Len(requests) : requests[i].status = OK
   /\ Len(repoTags) = 2
   /\ LET v1 == SemverValid(repoTags[1].name)
          v2 == SemverValid(repoTags[2].name)
      IN  /\ NumericPre(v1) /\ NumericPre(v2)
          /\ MainOf(v1) = MainOf(v2)
          /\ Len(PreOf(v1)) # Len(PreOf(v2))
          /\ ToNat(PreOf(v1)) # ToNat(PreOf(v2)))
    => /\ pc = "done"
       /\ LET v1 == SemverValid(repoTags[1].name)
              v2 == SemverValid(repoTags[2].name)
              larger == IF ToNat(PreOf(v1)) > ToNat(PreOf(v2)) THEN 1 ELSE 2
          IN  result = Returned(<<[name |-> repoTags[larger].name,
                                   sha |-> repoTags[larger].sha,
                                   version |-> SemverValid(repoTags[larger].name)]>>)

\* a version without a hyphen
NoHyphen(version) == \A i \in 1..Len(version) : version[i] # "-"

\* a normalized semantic version: MAJOR.MINOR.PATCH of numeric identifiers
\* and an optional pre-release, with no leading v and no build metadata
Normalized(version) ==
  /\ IsSemver(version)
  /\ version[1] \in Digit
  /\ \A i \in 1..Len(version) : version[i] # "+"

\* C22: without preRelease, latestTag never returns a tag whose version
\* has a hyphen, from the merged release pull request or from the tag
\* listing; and the version of every tag it returns is a valid normalized
\* semantic version.
C22_ReturnedVersion ==
  (op = "latestTag" /\ pc = "done" /\ result.value # <<>>) =>
    /\ ~args.preRelease => NoHyphen(result.value[1].version)
    /\ Normalized(result.value[1].version)

\* C22 witness: pre-releases are excluded, the merged release pull request
\* and a tag are pre-releases, and latestTag returns the other tag, whose
\* name starts with v.
C22_Witness ==
  /\ op = "latestTag" /\ pc = "done"
  /\ ~args.preRelease
  /\ closedPulls # <<>> /\ closedPulls[1].head = <<HeadPre>>
  /\ \E i \in 1..Len(repoTags) : ~NoHyphen(repoTags[i].name)
  /\ result.value # <<>>
  /\ result.value[1].name[1] = "v"
  /\ NoHyphen(result.value[1].version)

(***************************************************************************)
(* The tag scan over repositories whose tag names include the word         *)
(* "undefined", and with several names of one version.                     *)
(***************************************************************************)
TagScanNames ==
  {<<"v", "1", ".", "0", ".", "0">>,
   <<"1", ".", "0", ".", "0">>,
   UndefinedWord \o <<"1", ".", "0", ".", "0">>,
   <<"m", "y", "p", "k", "g", "-", "v", "1", ".", "0", ".", "0">>,
   <<"m", "y", "p", "k", "g", "-", "1", ".", "0", ".", "0">>,
   <<"v", "1", ".", "1", ".", "0", "-", "b", "e", "t", "a">>}

TagScanListings ==
  UNION {{l \in [1..n -> [name : TagScanNames, sha : 21..(20 + n)]] :
            \A i \in 1..n : l[i].sha = 20 + i} : n \in 0..MaxTags}

InitTagScan ==
  /\ probotMode = FALSE
  /\ instances = NotConstructed
  /\ sent = <<>>
  /\ defaultBranch \in {<<>>, Main}
  /\ lookups = 0
  /\ pc = "idle"
  /\ op = "none"
  /\ args = <<>>
  /\ requests = <<>>
  /\ result = Returned(<<>>)
  /\ history = <<>>
  /\ closedPulls = <<>>
  /\ openPulls = <<>>
  /\ repoTags \in TagScanListings
  /\ FewWhileUnresolved(Len(repoTags))
  /\ commits = <<>>
  /\ cursor = 0
  /\ retries = 0
  /\ tags = <<>>
  /\ tagPage = 1
  /\ files = {}
  /\ issues = <<>>
  /\ pullsResponse = <<>>
  /\ openReleasePR = <<>>
  /\ changes = <<>>
  /\ update = 1
  /\ prNumber = 0
  /\ repeated = FALSE

SpecTagScan == InitTagScan /\ [][NextTags]_vars

\* the tags of the pages allTags has read
TagsRead ==
  SubSeq(repoTags, 1,
         Min(Cardinality({i \in RequestsOf("GET tags") : requests[i].status = OK})
               * TagsPerPage,
             Len(repoTags)))

\* the normalized version of the name with the requested prefix stripped,
\* <<>> when the name does not start with the prefix or what is left is no
\* version
VersionOfName(name, prefix) ==
  IF ~StartsWith(name, prefix) THEN <<>>
  ELSE SemverValid(From(name, Len(prefix) + 1))

\* C25: the tags allTags collects.  Every entry is a tag that was read
\* whose name starts with the requested prefix (when one is given) and,
\* with the prefix stripped, is a valid version; the entry is keyed by that
\* version, normalized; there is one entry for every such version; and
\* the entry of a version is the last tag read that resolves to it.  The
\* tag the fallback returns is such an entry.
C25_TagCollection ==
  (op = "latestTag" /\ pc \in {"allTags", "awaitTags", "done"}
     /\ RequestsOf("GET tags") # {}) =>
    LET read == TagsRead
        VersionAt(i) == VersionOfName(read[i].name, args.prefix)
        LastOf(version) ==
          CHOOSE i \in 1..Len(read) :
            /\ VersionAt(i) = version
            /\ \A j \in (i + 1)..Len(read) : VersionAt(j) # version
    IN  /\ {tags[k].version : k \in 1..Len(tags)}
             = {VersionAt(i) : i \in 1..Len(read)} \ {<<>>}
        /\ \A k, l \in 1..Len(tags) : tags[k].version = tags[l].version => k = l
        /\ \A k \in 1..Len(tags) :
             /\ \E i \in 1..Len(read) : VersionAt(i) = tags[k].version
             /\ tags[k].name = read[LastOf(tags[k].version)].name
             /\ tags[k].sha = read[LastOf(tags[k].version)].sha
        /\ (pc = "done" /\ result.value # <<>>) =>
             \E k \in 1..Len(tags) : result.value[1] = tags[k]

(***************************************************************************)
(* Claims about the file reader.                                           *)
(***************************************************************************)
DataAPI == {"GET trees", "GET blobs"}

\* C13: getFileContentsOnBranch asks the data API (tree, then blob) if and
\* only if the contents request failed with status 403, and then once: a
\* tree request follows a contents request that failed with 403 and every
\* such failure is followed by one; a blob request follows a tree request
\* that succeeded; after a failed tree or blob request no tree or blob
\* request follows.  Called on its own, it issues one contents request and
\* at most one tree request, and an error of the contents request with
\* another status, or of a request of the data API, is the error it throws.
C13_FallbackOnlyWhenForbidden ==
  /\ \A i \in 1..Len(requests) :
       /\ requests[i].kind = "GET trees" =>
            /\ i > 1
            /\ requests[i - 1].kind = "GET contents"
            /\ requests[i - 1].status = ForbiddenStatus
       /\ requests[i].kind = "GET blobs" =>
            /\ i > 1
            /\ requests[i - 1].kind = "GET trees"
            /\ requests[i - 1].status = OK
       /\ (requests[i].kind = "GET contents" /\ requests[i].status = ForbiddenStatus) =>
            /\ i < Len(requests)
            /\ requests[i + 1].kind = "GET trees"
       /\ (requests[i].kind \in DataAPI /\ requests[i].status \notin {OK, Pending}) =>
            (i = Len(requests) \/ requests[i + 1].kind \notin DataAPI)
  /\ (op = "getFileContentsOnBranch" /\ Finished) =>
       /\ Cardinality(RequestsOf("GET contents")) = 1
       /\ Cardinality(RequestsOf("GET trees")) <= 1
       /\ Cardinality(RequestsOf("GET blobs")) <= 1
       /\ Awaited.status # OK =>
            /\ pc = "failed"
            /\ result = Thrown(Awaited.status)
            /\ Awaited.kind = "GET contents" => Awaited.status # ForbiddenStatus

\* C13 witness: getFileContentsOnBranch was refused the contents, asked for
\* the tree, and the tree request failed: it has thrown that error after
\* two requests.
C13_Witness ==
  /\ op = "getFileContentsOnBranch" /\ pc = "failed"
  /\ Len(requests) = 2
  /\ requests[1].status = ForbiddenStatus
  /\ requests[2].kind = "GET trees"
  /\ result = Thrown(OtherStatus)

\* C14: when the contents request of getFileContentsOnBranch failed with
\* status 403 and the tree of the branch has no entry for the path,
\* getFileContentsOnBranch throws an error whose status is 404, and it
\* issues no blob request.
C14_MissingInTreeIsNotFound ==
  (/\ op = "getFileContentsOnBranch" /\ Finished
   /\ Len(requests) >= 2
   /\ requests[1].status = ForbiddenStatus
   /\ requests[2].kind = "GET trees" /\ requests[2].status = OK
   /\ args.path \notin files)
    => /\ pc = "failed"
       /\ result = Thrown(NotFoundStatus)
       /\ RequestsOf("GET blobs") = {}

\* the path the i-th request is about
PathAt(i) ==
  IF requests[i].kind = "GET trees" THEN requests[i - 1].arg.path
  ELSE requests[i].arg.path

\* the answer to the i-th request reports the file as not found: status 404
\* from either strategy, or a tree without an entry for the path
NotFoundAt(i) ==
  /\ requests[i].kind \in {"GET contents"} \cup DataAPI
  /\ \/ requests[i].status = NotFoundStatus
     \/ /\ requests[i].kind = "GET trees"
        /\ requests[i].status = OK
        /\ PathAt(i) \notin files

InChanges(path) == \E k \in 1..Len(changes) : changes[k].path = path

\* C15: when, while openPR assembles the change set, the content of an
\* update is reported not found (by the contents request or by the data
\* API), openPR does not fail: the loop has gone past that update, and the
\* path is in the change set with the text the updater makes of absent content
\* if create is true, and is not in the change set if create is false.
C15_NotFoundTolerated ==
  (/\ op = "openPR"
   /\ requests # <<>>
   /\ NotFoundAt(Len(requests)))
    => /\ pc = "getChangeSet"
       /\ \E u \in 1..(update - 1) :
            LET upd == args.updates[u]
            IN  /\ upd.path = PathAt(Len(requests))
                /\ upd.create =>
                     \E k \in 1..Len(changes) :
                       changes[k] =
                         [path |-> upd.path,
                          change |-> [content |-> UpdateContent(upd.updater, <<>>),
                                      mode |-> "100644"]]
                /\ ~upd.create => ~InChanges(upd.path)

(***************************************************************************)
(* The specification of the module with several instances, and the claim   *)
(* about them.                                                             *)
(***************************************************************************)
InitModes ==
  /\ probotMode = FALSE
  /\ instances = NotConstructed
  /\ sent = <<>>
  /\ defaultBranch = <<>>
  /\ lookups = 0
  /\ pc = "idle"
  /\ op = "none"
  /\ args = <<>>
  /\ requests = <<>>
  /\ result = Returned(<<>>)
  /\ history = <<>>
  /\ closedPulls = <<>>
  /\ openPulls = <<>>
  /\ repoTags = <<>>
  /\ files = {}
  /\ issues = <<>>
  /\ commits = <<>>
  /\ cursor = 0
  /\ retries = 0
  /\ tags = <<>>
  /\ tagPage = 1
  /\ pullsResponse = <<>>
  /\ openReleasePR = <<>>
  /\ changes = <<>>
  /\ update = 1
  /\ prNumber = 0
  /\ repeated = FALSE

NextModes ==
  \/ \E i \in Instances, octokitAPIs \in {<<>>, <<"octokitAPIs">>} :
       Construct(i, octokitAPIs)
  \/ \E i \in Instances : GraphqlRequest(i)
  \/ \E i \in Instances : DecoratePaginateOpts(i)

SpecModes == InitModes /\ [][NextModes]_vars

\* C16: whether an instance decorates its query and pagination requests
\* with URL and authorization headers is fixed by its own construction: an
\* instance constructed without injected APIs decorates every request, one
\* constructed with injected APIs decorates none, whatever other instances
\* are constructed or used and in whatever order.
C16_ModeIsOfTheInstance ==
  \A k \in 1..Len(sent) :
    sent[k].decorated = (instances[sent[k].instance][1].apis = "own")

(***************************************************************************)
(* Claims about the default branch.                                        *)
(***************************************************************************)
\* a step leaves the resolved default branch as it is
BranchKept == defaultBranch # <<>> => defaultBranch' = defaultBranch

\* C17 as stated: over any sequence of operations on the instance the
\* lookup of the default branch is issued at most once, and never when the
\* branch was supplied at construction; once the branch is resolved its
\* value never changes.
C17_LookupAtMostOnce ==
  /\ [](lookups <= 1)
  /\ [][BranchKept /\ (defaultBranch # <<>> => lookups' = lookups)]_vars

\* C17 as amended: a lookup is issued only while the branch is unresolved,
\* so never when it was supplied at construction and never after a lookup
\* has succeeded (a lookup that failed may be followed by another); the
\* branch is set only by a lookup that succeeds; and once the branch is
\* resolved its value never changes.
C17_LookupOnlyWhileUnresolved ==
  [][/\ BranchKept
     /\ lookups' # lookups =>
          /\ defaultBranch = <<>>
          /\ lookups' = lookups + 1
          /\ requests' = Append(requests, Request("repos.get", [owner |-> Owner]))
     /\ defaultBranch' # defaultBranch =>
          /\ Awaited.kind = "repos.get" /\ Awaited.status = Pending
          /\ requests' = Answer(OK)]_vars

\* C17 witness: the first lookup failed, a later operation looked the
\* branch up again and resolved it, and an operation after that one has
\* returned without a lookup.
C17_Witness ==
  /\ lookups = 2
  /\ defaultBranch = Main
  /\ pc = "done"
  /\ RequestsOf("repos.get") = {}
  /\ requests # <<>>

(***************************************************************************)
(* Further claims about the synchronizer.                                  *)
(***************************************************************************)
Failed(i) == requests[i].status \notin {OK, Pending}

\* C18: when the creation step of openPR fails, openPR throws that error:
\* it issues no request after it, so no PATCH, and returns no number; and
\* when the PATCH fails, openPR throws that error instead of returning the
\* number of the pull request.
C18_CreationFailureIsFatal ==
  op = "openPR" =>
    \A i \in RequestsOf("createPullRequest") \cup RequestsOf("PATCH pulls") :
      Failed(i) =>
        /\ i = Len(requests)
        /\ pc = "failed"
        /\ result = Thrown(requests[i].status)
        /\ requests[i].kind = "createPullRequest" => RequestsOf("PATCH pulls") = {}

\* C18 witness: openPR had found an open release pull request whose body
\* differs, the creation step failed, and openPR has thrown its error.
C18_Witness ==
  /\ op = "openPR" /\ pc = "failed"
  /\ openReleasePR # <<>>
  /\ Awaited.kind = "createPullRequest"
  /\ Failed(Len(requests))
  /\ result = Thrown(OtherStatus)

(***************************************************************************)
(* Claims about the change set.                                            *)
(***************************************************************************)
\* the requests of the call for the file at path
FetchesOf(path) ==
  {i \in 1..Len(requests) :
     /\ requests[i].kind \in {"GET contents", "GET blobs"}
     /\ requests[i].arg.path = path}

\* the file at path has arrived
Arrived(path) == \E i \in FetchesOf(path) : requests[i].status = OK

\* the text the updater of upd is given: that of the loaded contents, that
\* of the file that arrived, or none
GivenText(upd) ==
  IF upd.contents # <<>> THEN <<upd.contents[1].parsedContent>>
  ELSE IF Arrived(upd.path) THEN <<TextOf(upd.path)>>
  ELSE <<>>

\* the update was skipped: its file did not arrive and is not to be created
Skipped(upd) == upd.contents = <<>> /\ ~Arrived(upd.path) /\ ~upd.create

\* the updates that are to be staged, as positions of options.updates
Staged ==
  {u \in 1..Len(args.updates) :
     /\ ~Skipped(args.updates[u])
     /\ UpdateContent(args.updates[u].updater, GivenText(args.updates[u])) # <<>>}

\* C21: the change set handed to createPullRequest holds exactly the paths
\* of the updates that were not skipped and whose updater yielded a text,
\* each once, with that text and mode 100644; an updater that yields
\* nothing leaves no entry; and for an update with loaded contents no file
\* is requested from the host.
C21_ChangeSetComposition ==
  op = "openPR" =>
    \A i \in RequestsOf("createPullRequest") :
      LET handed == requests[i].arg.changes
      IN  /\ {handed[k].path : k \in 1..Len(handed)}
               = {args.updates[u].path : u \in Staged}
          /\ \A k, l \in 1..Len(handed) :
               handed[k].path = handed[l].path => k = l
          /\ \A k \in 1..Len(handed) : \E u \in Staged :
               /\ args.updates[u].path = handed[k].path
               /\ handed[k].change =
                    [content |-> UpdateContent(args.updates[u].updater,
                                               GivenText(args.updates[u])),
                     mode |-> "100644"]
          /\ \A u \in 1..Len(args.updates) :
               args.updates[u].contents # <<>>
                 => FetchesOf(args.updates[u].path) = {}

\* C21 witness: a change set was handed over after a file had arrived whose
\* updater yielded nothing and a missing file was created.
C21_Witness ==
  /\ op = "openPR"
  /\ \E i \in RequestsOf("createPullRequest") : requests[i].arg.changes # <<>>
  /\ \E u \in 1..Len(args.updates) :
       /\ args.updates[u].updater = "nothing"
       /\ Arrived(args.updates[u].path)
  /\ \E u \in Staged : ~Arrived(args.updates[u].path)

\* the requests getFileContentsOnBranch makes
Reads == RequestsOf("GET contents") \cup RequestsOf("GET trees")
           \cup RequestsOf("GET blobs")

\* the mutating calls of openPR
Mutations == RequestsOf("createPullRequest") \cup RequestsOf("PATCH pulls")

\* the read that made request i has failed with an error that is not a
\* 404: the request was refused with another status (a 403 of the contents
\* API is answered by the fallback), or the tree that arrived does not
\* hold the path, which is an error without a status
ReadError(i) ==
  IF requests[i].kind = "GET trees" /\ requests[i].status = OK
  THEN IF i = Len(requests) /\ pc # "awaitTree" THEN <<NoStatus>> ELSE <<>>
  ELSE IF /\ Failed(i)
          /\ requests[i].status # NotFoundStatus
          /\ ~(requests[i].kind = "GET contents"
                /\ requests[i].status = ForbiddenStatus)
       THEN <<requests[i].status>>
       ELSE <<>>

\* C27: no mutation after a failed read.  Every read of openPR is made
\* before createPullRequest and the PATCH; and when a read fails with an
\* error that is not a 404, openPR has failed with that error, the read is
\* its last request, and neither createPullRequest nor the PATCH was
\* called.
C27_NoMutationOnFailedRead ==
  op = "openPR" =>
    /\ \A i \in Reads, j \in Mutations : i < j
    /\ \A i \in Reads :
         ReadError(i) # <<>> =>
           /\ i = Len(requests)
           /\ pc = "failed"
           /\ result = Thrown(ReadError(i)[1])
           /\ Mutations = {}

\* C27 witness: the file of the first update has arrived, the read for the
\* second has failed with status 500, and openPR has thrown that error.
C27_Witness ==
  /\ op = "openPR" /\ pc = "failed"
  /\ Cardinality(RequestsOf("GET contents")) = 2
  /\ \E i \in RequestsOf("GET contents") : requests[i].status = OK
  /\ Awaited.kind = "GET contents"
  /\ Awaited.status = OtherStatus
  /\ result = Thrown(OtherStatus)

(***************************************************************************)
(* Claims about the order of the requests.                                 *)
(***************************************************************************)
\* C23: during a call at most one request, to the host or to
\* createPullRequest, is outstanding at any time: every request but the
\* last of the call has been answered, with success or with a failure,
\* before the next was issued.
C23_OneRequestAtATime ==
  /\ Cardinality(Outstanding) <= 1
  /\ \A i \in 1..(Len(requests) - 1) : requests[i].status # Pending

\* C23 witness: a call awaits its fifth request, a PATCH after a file read
\* through the data API and the creation step, and the four before it have
\* been answered.
C23_Witness ==
  /\ op = "openPR"
  /\ Len(requests) >= 5
  /\ Awaited.kind = "PATCH pulls"
  /\ Outstanding = {Len(requests)}
  /\ RequestsOf("GET blobs") # {}

(***************************************************************************)
(* findExistingReleaseIssue (github.ts:671-702) and AuthError              *)
(* (github.ts:1010-1017).  An issue of the host is a record                *)
(* [number, title, state]; the listing is read page by page.               *)
(***************************************************************************)
\* most issues the host lists
MaxIssues == 2

\* the size of a page of the issue listing (per_page: 100 at github.ts:683,
\* scaled down)
IssuesPerPage == 1

\* github.ts:1015: this.status = 401
AuthStatus == "401"

IssuePageOf(page) ==
  SubSeq(issues, (page - 1) * IssuesPerPage + 1,
         Min(page * IssuesPerPage, Len(issues)))

HasNextIssuePage(page) == page * IssuesPerPage < Len(issues)

\* github.ts:686-691: the loop over one page, from its i-th issue
RECURSIVE ExistingIssueFrom(_, _, _)
ExistingIssueFrom(data, i, title) ==
  IF i > Len(data) THEN <<>>
  ELSE IF Includes(data[i].title, title) /\ data[i].state = "open"
       THEN <<data[i]>>
       ELSE ExistingIssueFrom(data, i + 1, title)

\* the error of the listing is thrown on as it is
CaughtAsIs(status) == status

\* github.ts:693-700: the status of what the catch throws
Caught(status) == IF status = NotFoundStatus THEN AuthStatus ELSE status

ReleaseTitle == <<"r", "e", "l", " ", "1">>
IssueTitles == {ReleaseTitle, <<"c", ":", " ">> \o ReleaseTitle, <<"r", "e", "l", " ", "2">>}

\* findExistingReleaseIssue(title, labels), up to the first page
FindExistingReleaseIssue ==
  /\ Idle
  /\ \E title \in {ReleaseTitle, <<"r", "e", "l">>} :
       args' = [title |-> title, labels |-> <<"release-please">>]
  /\ op' = "findExistingReleaseIssue"
  /\ pc' = "listIssues"
  /\ requests' = <<>>
  /\ result' = Returned(<<>>)
  /\ UNCHANGED <<moduleVars, instVars, hostVars, localVars>>

\* github.ts:676-685: the iterator asks for the next page, the one after
\* those it has
ListIssues ==
  /\ pc = "listIssues"
  /\ requests' = Append(requests,
       Request("GET issues", [labels |-> args.labels,
                              page |-> Len(requests) + 1]))
  /\ pc' = "awaitIssues"
  /\ UNCHANGED <<moduleVars, instVars, op, args, result, hostVars, localVars>>

\* a page arrives: github.ts:686-691, and github.ts:701 after the last
IssuesListed ==
  /\ pc = "awaitIssues"
  /\ requests' = Answer(OK)
  /\ LET issue == ExistingIssueFrom(IssuePageOf(Awaited.arg.page), 1, args.title)
     IN  IF issue # <<>>
         THEN pc' = "done" /\ result' = Returned(issue)
         ELSE IF HasNextIssuePage(Awaited.arg.page)
         THEN pc' = "listIssues" /\ UNCHANGED result
         ELSE pc' = "done" /\ result' = Returned(<<>>)
  /\ UNCHANGED <<moduleVars, instVars, op, args, hostVars, localVars>>

\* a page fails: github.ts:692-700
ListIssuesFail ==
  /\ pc = "awaitIssues"
  /\ \E status \in {NotFoundStatus, OtherStatus, NoStatus} :
       /\ requests' = Answer(status)
       /\ result' = Thrown(Caught(status))
  /\ pc' = "failed"
  /\ UNCHANGED <<moduleVars, instVars, op, args, hostVars, localVars>>

\* the listings of up to MaxIssues issues, numbered by their position
IssueListings ==
  UNION {{l \in [1..n -> [number : 1..n, title : IssueTitles,
                          state : {"open", "closed"}]] :
            \A i \in 1..n : l[i].number = i} : n \in 0..MaxIssues}

InitIssues ==
  /\ probotMode = FALSE
  /\ instances = NotConstructed
  /\ sent = <<>>
  /\ defaultBranch \in {<<>>, Main}
  /\ lookups = 0
  /\ pc = "idle"
  /\ op = "none"
  /\ args = <<>>
  /\ requests = <<>>
  /\ result = Returned(<<>>)
  /\ history = <<>>
  /\ closedPulls = <<>>
  /\ openPulls = <<>>
  /\ repoTags = <<>>
  /\ files = {}
  /\ issues \in IssueListings
  /\ commits = <<>>
  /\ cursor = 0
  /\ retries = 0
  /\ tags = <<>>
  /\ tagPage = 1
  /\ pullsResponse = <<>>
  /\ openReleasePR = <<>>
  /\ changes = <<>>
  /\ update = 1
  /\ prNumber = 0
  /\ repeated = FALSE

NextIssues ==
  \/ FindExistingReleaseIssue
  \/ ListIssues
  \/ IssuesListed
  \/ ListIssuesFail
  \/ Return

SpecIssues == InitIssues /\ [][NextIssues]_vars

(***************************************************************************)
(* Claims about the issue finder.                                          *)
(***************************************************************************)
\* the issue at position i of the listing is open and its title contains
\* the requested title
OpenWithTitle(i) ==
  issues[i].state = "open" /\ Includes(issues[i].title, args.title)

\* C24: when a page of the issue listing fails, findExistingReleaseIssue
\* throws an error of status 401 if the failure was a 404 and the failure
\* itself otherwise, and the page is not requested again; when no page
\* fails it returns the first open issue of the listing, in page order,
\* whose title contains the requested title, or undefined if there is none.
C24_ExistingReleaseIssue ==
  op = "findExistingReleaseIssue" =>
    /\ \A i, j \in RequestsOf("GET issues") :
         requests[i].arg.page = requests[j].arg.page => i = j
    /\ \A i \in 1..Len(requests) :
         Failed(i) =>
           /\ i = Len(requests)
           /\ pc = "failed"
           /\ result = Thrown(IF requests[i].status = NotFoundStatus
                              THEN "401" ELSE requests[i].status)
    /\ pc = "done" =>
         IF \E i \in 1..Len(issues) : OpenWithTitle(i)
         THEN result = Returned(<<issues[CHOOSE i \in 1..Len(issues) :
                                    /\ OpenWithTitle(i)
                                    /\ \A j \in 1..(i - 1) : ~OpenWithTitle(j)]>>)
         ELSE result = Returned(<<>>)

\* C24 witness: the second page of the listing failed with 404 after a
\* first page without a match, and the call has thrown the error of
\* status 401.
C24_Witness ==
  /\ op = "findExistingReleaseIssue" /\ pc = "failed"
  /\ Len(requests) = 2
  /\ requests[1].status = OK
  /\ requests[2].status = NotFoundStatus
  /\ result = Thrown(AuthStatus)

====
